---- MODULE Spec2Model ----
(***************************************************************************)
(* The client-side query/mutation cache of the task dashboard:             *)
(* hooks/useTasks.ts (task and category hooks), the QueryClient defaults   *)
(* of the QueryProvider, and the dashboard page that observes the keys.    *)
(* The backend is an opaque store: a version counter that every successful *)
(* task mutation advances, and an ordered list of categories.              *)
(***************************************************************************)
EXTENDS Integers, Sequences, FiniteSets, TLC

\* ------------------------------------------------------------------ bounds
MaxEvents == 1   \* mutations and failed reads in one behaviour
MaxFailures == 5 \* failed attempts of one request that a behaviour follows
MaxRequests == 3 \* requests the AI panels send in one behaviour

\* ------------------------------------------------------- values and inputs
undefined == 0                      \* the JavaScript value undefined, as an id
TaskIds == {1, 2}
CatIds == {1, 2, 3}
Priorities == {"", "high", "medium"} \* values of the dashboard's priority filter
Statuses == {0, 400, 499, 500}      \* HTTP status of a failed response, 0: no response
EnhanceShapes == {"task", "envelope"}
TaskOps == {"createTask", "updateTask", "deleteTask", "completeTask", "enhanceTask"}
CatOps == {"createCategory", "updateCategory", "deleteCategory"}

VARIABLES
    tracked,    \* the query keys this behaviour follows
    cache,      \* QueryCache: query key -> query state, for the tracked keys
    backend,    \* [ver, cats]: what the REST service holds
    mounted,    \* the dashboard page is mounted
    filters,    \* the dashboard's filter state
    ev,         \* what the last step did: requests sent, reads served from the cache,
                \* reads that joined a pending request, errors surfaced, mutation settled
    dirty,      \* key -> 0: not invalidated by a mutation since its last request,
                \*        1: invalidated, 2: invalidated while a request for it stayed in flight
    nEvents     \* mutations and failed reads so far

cacheVars == <<tracked, cache, backend, mounted, filters, ev, dirty, nEvents>>

\* The API client's authentication and the pages that depend on it.
VARIABLES
    storage,    \* localStorage: item name -> value, for the items that are set
    valid,      \* the access tokens the service accepts
    page,       \* the route the browser shows
    login,      \* "idle", or "pending" while the request of authApi.login is in flight
    out,        \* what the last step did: the request sent (req) with its headers,
                \* the call that settled (done)
    loggedOut   \* authApi.logout ran and no login has succeeded since

authVars == <<storage, valid, page, login, out, loggedOut>>

\* The signup and login forms, and the toast of the mutation hooks.
VARIABLES
    signupForm, \* SignupPage's state: password, confirmPassword, error, loading
    loginForm,  \* LoginPage's state: error, loading
    toast,      \* the message of the last toast.error, <<>> when none was shown
    shown       \* <<>> or the failure the last step handled: the view, the error
                \* and the message it set

formVars == <<signupForm, loginForm, toast, shown>>

\* One task card of the dashboard's list: its task prop, the variables of
\* the pending mutation of each of its hooks, the handler that ran in the
\* last step with the requests it sent.
VARIABLES card
cardVars == <<card>>

\* The dashboard's task form: whether it is shown, the task being edited,
\* the form data, the mutation its submit awaits, and what the last step
\* of the form did.
VARIABLES taskForm

\* The AI panels. analyzer, enhancer, recs: the local state of
\* AIContextAnalyzer, AITaskEnhancer and AIRecommendations, each with the
\* requests it has in flight and what its last step did; contextServer: the
\* ids of the unprocessed context entries the service holds; nSent: the
\* requests the panels have sent.
VARIABLES analyzer, enhancer, recs, contextServer, nSent
panelVars == <<analyzer, enhancer, recs, contextServer, nSent>>

besidesCard == <<taskForm, panelVars>>
besidesTaskForm == <<card, panelVars>>
besidesPanels == <<card, taskForm>>
widgetVars == <<card, taskForm, panelVars>>

vars == <<cacheVars, authVars, formVars, widgetVars>>

\* ---------------------------------------------------------------- query keys
taskKeys_all == <<"tasks">>
taskKeys_lists == taskKeys_all \o <<"list">>
\* Variant: every filter object shares one list key.
taskKeys_list_shared(f) == taskKeys_lists \o <<"all">>
taskKeys_list(f) == taskKeys_lists \o <<f>>
taskKeys_details == taskKeys_all \o <<"detail">>
taskKeys_detail(id) == taskKeys_details \o <<id>>
taskKeys_stats == taskKeys_all \o <<"stats">>
taskKeys_today == taskKeys_all \o <<"today">>
taskKeys_overdue == taskKeys_all \o <<"overdue">>

categoryKeys_all == <<"categories">>
categoryKeys_lists == categoryKeys_all \o <<"list">>
categoryKeys_details == categoryKeys_all \o <<"detail">>
\* Variant: the detail key of a category is the detail key of the task with
\* the same id.
categoryKeys_detail_asTask(id) == taskKeys_details \o <<id>>
categoryKeys_detail(id) == categoryKeys_details \o <<id>>

\* The dashboard turns its filter state into the object given to useTasks:
\* empty strings become undefined, and an undefined property is absent from
\* the hashed query key.
apiFilters(f) ==
    LET present == {n \in DOMAIN f : f[n] # ""}
    IN  [n \in present |-> f[n]]

DefaultFilters == [search |-> "", priority |-> "", status |-> "", ordering |-> "-created_at"]
FilterStates == {[DefaultFilters EXCEPT !.priority = p] : p \in Priorities}

ListKeys == {taskKeys_list(apiFilters(f)) : f \in FilterStates}
DetailKeys == {taskKeys_detail(i) : i \in TaskIds \cup {undefined}}
TaskKeys == ListKeys \cup DetailKeys \cup {taskKeys_stats, taskKeys_today, taskKeys_overdue}
CategoryKeys == {categoryKeys_lists} \cup {categoryKeys_detail(i) : i \in CatIds}
Keys == TaskKeys \cup CategoryKeys

\* Query filters match by key prefix.
partialMatchKey(k, prefix) ==
    /\ Len(prefix) <= Len(k)
    /\ \A i \in 1..Len(prefix) : k[i] = prefix[i]

\* ------------------------------------------------------------- query state
\* data and snap hold zero or one value: <<>> is undefined.  snap is the body
\* the service answers the pending request with.
NewQuery ==
    [data |-> <<>>, isInvalidated |-> FALSE, expired |-> FALSE,
     fetchStatus |-> "idle", snap |-> <<>>]

build(c, k) == IF k \in DOMAIN c THEN c[k] ELSE NewQuery

\* staleTime is positive for every key (5 minutes by default), so a query is
\* stale when it has no data, was invalidated, or its window ran out.
isStale(q) == Len(q.data) = 0 \/ q.isInvalidated \/ q.expired

\* The keys the mounted dashboard observes.
observedKeys(f) ==
    {taskKeys_list(apiFilters(f)), categoryKeys_lists,
     taskKeys_stats, taskKeys_today, taskKeys_overdue}

isActive(k) == mounted /\ k \in observedKeys(filters)

\* ---------------------------------------------------------------- backend
Task(id, b) == [id |-> id, rev |-> b.ver]

\* What the service may hold when the client starts.
InitialCats == {<<[id |-> 2, rev |-> 0], [id |-> 1, rev |-> 0]>>}

\* The body the service answers a read of key k with.
ServerReply(k, b) ==
    IF k[1] = "categories"
    THEN b.cats
    ELSE IF k[2] = "detail" THEN Task(k[3], b) ELSE b.ver

\* ------------------------------------------------- the query client's calls
\* A store is the part of the state one handler works on:
\* [cache, backend, net, hit, join].
Store(c, b) == [cache |-> c, backend |-> b, net |-> {}, hit |-> {}, join |-> {}]

\* query.fetch: a pending request is shared, unless the caller asks to cancel
\* it and the query already has data.
sendsRequest(q, cancelRefetch) ==
    q.fetchStatus = "idle" \/ (Len(q.data) > 0 /\ cancelRefetch)

fetching(q, reply) ==
    [q EXCEPT !.fetchStatus = "fetching", !.snap = <<reply>>]

fetchKeys(st, K, cancelRefetch) ==
    LET sent == {k \in K : sendsRequest(build(st.cache, k), cancelRefetch)}
    IN  [st EXCEPT
            !.cache = [k \in DOMAIN st.cache \cup K |->
                          IF k \in sent
                          THEN fetching(build(st.cache, k), ServerReply(k, st.backend))
                          ELSE build(st.cache, k)],
            !.net = st.net \cup sent,
            !.join = st.join \cup (K \ sent)]

\* useQuery mounting on the keys K: fresh data is served from the cache,
\* anything stale is fetched.
observe(st, K) ==
    LET stale == {k \in K : isStale(build(st.cache, k))}
        st1 == fetchKeys(st, stale, FALSE)
    IN  [st1 EXCEPT
            !.cache = [k \in DOMAIN st1.cache \cup K |-> build(st1.cache, k)],
            !.hit = st.hit \cup (K \ stale)]

\* invalidateQueries: mark every matching query, refetch the active ones.
invalidateQueries(st, prefix) ==
    LET M == {k \in DOMAIN st.cache : partialMatchKey(k, prefix)}
        marked == [k \in DOMAIN st.cache |->
                      IF k \in M THEN [st.cache[k] EXCEPT !.isInvalidated = TRUE]
                      ELSE st.cache[k]]
    IN  fetchKeys([st EXCEPT !.cache = marked], {k \in M : isActive(k)}, TRUE)

\* setQueryData with a value: creates the query when needed.
setQueryData(st, k, value) ==
    [st EXCEPT
        !.cache = [j \in DOMAIN st.cache \cup {k} |->
                      IF j = k
                      THEN [build(st.cache, k) EXCEPT
                               !.data = <<value>>, !.isInvalidated = FALSE,
                               !.expired = FALSE]
                      ELSE st.cache[j]]]

removeQueries(st, prefix) ==
    [st EXCEPT
        !.cache = [k \in {j \in DOMAIN st.cache : ~partialMatchKey(j, prefix)} |->
                      st.cache[k]]]

\* ------------------------------------------------------- QueryClient defaults
\* Variant: one retry too many.
QueryRetry_offByOne(failureCount, status) ==
    IF status >= 400 /\ status < 500
    THEN FALSE
    ELSE failureCount <= 3
QueryRetry(failureCount, status) ==
    IF status >= 400 /\ status < 500
    THEN FALSE
    ELSE failureCount < 3

\* Variant: a failed mutation is sent once more.
MutationRetry_once(failureCount, status) == failureCount < 1
MutationRetry(failureCount, status) == FALSE

\* The retryer: after a failed attempt it asks the retry option with the
\* number of failures so far, and sends the request again when the answer is
\* true.
Retry(kind, failureCount, status) ==
    IF kind = "query"
    THEN QueryRetry(failureCount, status)
    ELSE MutationRetry(failureCount, status)

\* The retryer gives up at its n-th failed attempt, which has the given
\* status, when the retry option refuses that one and accepted each of the
\* attempts before: the first, which had the status first, and the others
\* with some status.
GivesUp(kind, n, first, status) ==
    /\ ~Retry(kind, n - 1, status)
    /\ IF n = 1
       THEN first = status
       ELSE /\ Retry(kind, 0, first)
            /\ \A i \in 1..(n - 2) : \E t \in Statuses : Retry(kind, i, t)

\* ------------------------------------------------------------------- ghosts
\* dirty after a handler ran: keys a mutation invalidated (inval) become 1,
\* or 2 when a request for them was in flight and stayed; a sent request
\* clears the mark.
markDirty(st0, st, inval) ==
    [k \in tracked |->
        IF k \in st.net THEN 0
        ELSE IF k \in inval
             THEN IF k \in DOMAIN st0.cache /\ st0.cache[k].fetchStatus = "fetching"
                  THEN 2
                  ELSE 1
             ELSE dirty[k]]

\* What a step did, for the followed keys.  net: requests sent; hit: reads
\* served from the cache; join: reads that share a pending request;
\* removed: queries dropped from the cache; refetched: keys with dirty = 1
\* that a request is now sent for; error: <<>> or the query error
\* surfaced; done: <<>> or the mutation that settled.
Event(st, done) ==
    [net |-> st.net \cap tracked, hit |-> st.hit \cap tracked,
     join |-> st.join \cap tracked,
     removed |-> (DOMAIN cache \ DOMAIN st.cache) \cap tracked,
     refetched |-> {k \in st.net \cap tracked : dirty[k] = 1},
     error |-> <<>>, done |-> done]
NoEvent ==
    [net |-> {}, hit |-> {}, join |-> {}, removed |-> {}, refetched |-> {},
     error |-> <<>>, done |-> <<>>]

\* The query error a step surfaced: the key, the requests that were sent for
\* it, the status of the first failure and of the last one.
Surfaced(k, n, first, status) ==
    <<[key |-> k, sent |-> n, first |-> first, status |-> status]>>

\* No call of the query client makes the state of one query depend on
\* another query's, so a behaviour keeps the queries it follows and drops
\* the rest.
restrict(c) == [k \in DOMAIN c \cap tracked |-> c[k]]

Commit(st, inval, done) ==
    /\ cache' = restrict(st.cache)
    /\ backend' = st.backend
    /\ ev' = Event(st, done)
    /\ dirty' = markDirty(Store(cache, backend), st, inval)
    /\ tracked' = tracked

\* ------------------------------------------------------------------- auth
AccessTokens == {"a1", "a2"}
RefreshTokens == {"r1", "r2"}
Routes == {"/login", "/signup", "/dashboard"}
ApiCalls == {"getTasks", "createTask", "signup"}   \* API methods other than login

\* localStorage.getItem: <<>> is null.
getItem(s, name) == IF name \in DOMAIN s THEN <<s[name]>> ELSE <<>>
setItem(s, name, value) == [n \in DOMAIN s \cup {name} |-> IF n = name THEN value ELSE s[n]]
removeItem(s, name) == [n \in DOMAIN s \ {name} |-> s[n]]

\* if (token): null and the empty string are falsy.
truthy(item) == item # <<>> /\ item[1] # ""

\* Variant: the header is built from the refresh token.
interceptor_refresh(s) ==
    LET token == getItem(s, "refresh_token")
    IN  IF truthy(token) THEN [Authorization |-> <<"Bearer", token[1]>>] ELSE << >>
\* The request interceptor: the headers it adds to a request.
interceptor(s) ==
    LET token == getItem(s, "access_token")
    IN  IF truthy(token) THEN [Authorization |-> <<"Bearer", token[1]>>] ELSE << >>

\* Variant: the refresh value is stored under both names.
authApi_login_store_refreshOnly(s, data) ==
    setItem(setItem(s, "access_token", data.refresh), "refresh_token", data.refresh)
\* authApi.login after the response arrived.
authApi_login_store(s, data) ==
    setItem(setItem(s, "access_token", data.access), "refresh_token", data.refresh)

\* Variant: the refresh token stays.
authApi_logout_accessOnly(s) == removeItem(s, "access_token")
authApi_logout(s) == removeItem(removeItem(s, "access_token"), "refresh_token")

Request(call, s) == <<[call |-> call, headers |-> interceptor(s)]>>
Settled(call, ok, status, data) ==
    <<[call |-> call, ok |-> ok, status |-> status, data |-> data]>>
NoOut == [req |-> <<>>, done |-> <<>>]

InitAuth ==
    /\ storage = << >>
    /\ valid = {}
    /\ page = "/login"
    /\ login = "idle"
    /\ out = NoOut
    /\ loggedOut = FALSE

\* The user opens a page that is not protected.
openPage(route) ==
    /\ route \in Routes \ {"/dashboard"}
    /\ page # route
    /\ page' = route
    /\ out' = NoOut
    /\ UNCHANGED <<storage, valid, login, loggedOut>>

\* The dashboard page loads: its effect sends the browser to /login when no
\* access token is stored.
DashboardPage_authEffect ==
    /\ page' = IF ~truthy(getItem(storage, "access_token")) THEN "/login" ELSE "/dashboard"
    /\ out' = [NoOut EXCEPT !.done = Settled("loadDashboard", TRUE, 200, [none |-> TRUE])]
    /\ UNCHANGED <<storage, valid, login, loggedOut>>

\* LoginPage.handleSubmit up to the request of authApi.login.
authApi_login ==
    /\ page = "/login"
    /\ login = "idle"
    /\ login' = "pending"
    /\ out' = [NoOut EXCEPT !.req = Request("login", storage)]
    /\ UNCHANGED <<storage, valid, page, loggedOut>>

\* The login request succeeds: the tokens are stored and LoginPage pushes
\* /dashboard.
authApi_login_success(data) ==
    /\ login = "pending"
    /\ login' = "idle"
    /\ storage' = authApi_login_store(storage, data)
    /\ valid' = valid \cup {data.access}
    /\ page' = IF page = "/login" THEN "/dashboard" ELSE page
    /\ loggedOut' = FALSE
    /\ out' = [NoOut EXCEPT !.done = Settled("login", TRUE, 200, data)]

\* The login request fails: LoginPage shows an error.
authApi_login_failure(status) ==
    /\ login = "pending"
    /\ login' = "idle"
    /\ status # 0 => status >= 400
    /\ out' = [NoOut EXCEPT !.done = Settled("login", FALSE, status, [none |-> TRUE])]
    /\ UNCHANGED <<storage, valid, page, loggedOut>>

authApi_logout_call ==
    /\ storage' = authApi_logout(storage)
    /\ loggedOut' = TRUE
    /\ out' = [NoOut EXCEPT !.done = Settled("logout", TRUE, 200, [none |-> TRUE])]
    /\ UNCHANGED <<valid, page, login>>

\* Any other API method: the request leaves with the interceptor's headers
\* and is answered; the service answers 401 to a token it does not accept.
apiCall(call, status) ==
    /\ LET h == interceptor(storage)
           accepted == "Authorization" \in DOMAIN h /\ h.Authorization[2] \in valid
       IN  /\ status = 200 => accepted \/ call = "signup"
           /\ status = 401 => ~accepted
    /\ out' = [req |-> Request(call, storage), done |-> Settled(call, status = 200, status, [none |-> TRUE])]
    /\ UNCHANGED <<storage, valid, page, login, loggedOut>>

\* An access token runs out.
TokenExpires(t) ==
    /\ t \in valid
    /\ valid' = valid \ {t}
    /\ out' = NoOut
    /\ UNCHANGED <<storage, page, login, loggedOut>>

NextAuth ==
    \/ \E route \in Routes : openPage(route) /\ UNCHANGED <<cacheVars, formVars, widgetVars>>
    \/ DashboardPage_authEffect /\ UNCHANGED <<cacheVars, formVars, widgetVars>>
    \/ authApi_login /\ UNCHANGED <<cacheVars, formVars, widgetVars>>
    \/ \E a \in AccessTokens, r \in RefreshTokens :
            authApi_login_success([access |-> a, refresh |-> r]) /\ UNCHANGED <<cacheVars, formVars, widgetVars>>
    \/ \E status \in Statuses : authApi_login_failure(status) /\ UNCHANGED <<cacheVars, formVars, widgetVars>>
    \/ authApi_logout_call /\ UNCHANGED <<cacheVars, formVars, widgetVars>>
    \/ \E call \in ApiCalls, status \in {200, 401, 500} :
            apiCall(call, status) /\ UNCHANGED <<cacheVars, formVars, widgetVars>>
    \/ \E t \in AccessTokens : TokenExpires(t) /\ UNCHANGED <<cacheVars, formVars, widgetVars>>

\* ------------------------------------------------------------------ forms
\* A JavaScript value that is a string or an array of strings.
Str(text) == [isArray |-> FALSE, items |-> <<text>>]
Arr(items) == [isArray |-> TRUE, items |-> items]
truthyValue(v) == v.isArray \/ v.items[1] # ""

\* A response body: a string, or an object given as the sequence of its
\* properties, in insertion order.
StringBody(text) == [isString |-> TRUE, text |-> text, fields |-> << >>]
ObjectBody(fields) == [isString |-> FALSE, text |-> "", fields |-> fields]
Field(name, value) == [name |-> name, value |-> value]

\* data[name]: <<>> is undefined.
prop(data, name) ==
    IF data.isString \/ ~\E j \in 1..Len(data.fields) : data.fields[j].name = name
    THEN <<>>
    ELSE <<data.fields[CHOOSE j \in 1..Len(data.fields) : data.fields[j].name = name].value>>

truthyProp(data, name) == prop(data, name) # <<>> /\ truthyValue(prop(data, name)[1])

\* Object.values(data).flat()
RECURSIVE flatValues(_)
flatValues(fields) ==
    IF fields = << >> THEN << >>
    ELSE Head(fields).value.items \o flatValues(Tail(fields))

\* An error as axios rejects with it: response is <<>> when no response
\* arrived, its data is <<>> when the body is empty.
AxiosError(response, message) == [response |-> response, message |-> message]
Response(status, data) == <<[status |-> status, data |-> data]>>

\* err?.response?.data, <<>> when it is falsy.
dataOf(err) ==
    IF err.response = <<>> THEN <<>>
    ELSE LET d == err.response[1].data
         IN  IF d = <<>> \/ (d[1].isString /\ d[1].text = "") THEN <<>> ELSE d

MessageArrays == {<<"err1">>, <<"err1", "err2">>}
FieldMaps ==
    {<<Field("username", Arr(m))>> : m \in MessageArrays}
    \cup {<<Field("username", Arr(m)), Field("password", Arr(<<"err3">>))>> :
                m \in MessageArrays}
Bodies ==
    {<<>>, <<StringBody("<html>Server Error</html>")>>, <<ObjectBody(<< >>)>>,
     <<ObjectBody(<<Field("detail", Str("username taken"))>>)>>,
     <<ObjectBody(<<Field("message", Str("quota exceeded"))>>)>>}
    \cup {<<ObjectBody(f)>> : f \in FieldMaps}
Errors ==
    {AxiosError(<<>>, "Network Error")}
    \cup {AxiosError(Response(400, d), "Request failed with status code 400") : d \in Bodies}
    \cup {AxiosError(Response(500, d), "Request failed with status code 500") : d \in Bodies}

SignupFallback == "Signup failed. Please try a different username."
LoginFallback == "Login failed. Please check your credentials."
GenericFallback == "An unexpected error occurred"
Fallback(view) ==
    CASE view = "signup" -> SignupFallback
      [] view = "login" -> LoginFallback
      [] OTHER -> GenericFallback

\* Variant: only the messages of the first field are shown.
SignupPage_catch_firstField(err) ==
    LET data == dataOf(err)
    IN  IF data # <<>>
        THEN IF data[1].isString THEN Str(data[1].text)
             ELSE IF truthyProp(data[1], "detail") THEN prop(data[1], "detail")[1]
             ELSE Arr(flatValues(SubSeq(data[1].fields, 1, IF data[1].fields = << >> THEN 0 ELSE 1)))
        ELSE Str(SignupFallback)
\* The catch block of SignupPage.handleSubmit: the value given to setError.
SignupPage_catch(err) ==
    LET data == dataOf(err)
    IN  IF data # <<>>
        THEN IF data[1].isString THEN Str(data[1].text)
             ELSE IF truthyProp(data[1], "detail") THEN prop(data[1], "detail")[1]
             ELSE Arr(flatValues(data[1].fields))
        ELSE Str(SignupFallback)

\* err?.response?.data?.detail || fallback
LoginPage_catch(err) ==
    LET data == dataOf(err)
    IN  IF data # <<>> /\ truthyProp(data[1], "detail")
        THEN prop(data[1], "detail")[1]
        ELSE Str(LoginFallback)

getErrorMessage(error) ==
    LET data == dataOf(error)
    IN  IF data # <<>> /\ truthyProp(data[1], "message") THEN prop(data[1], "message")[1]
        ELSE IF data # <<>> /\ truthyProp(data[1], "detail") THEN prop(data[1], "detail")[1]
        ELSE IF error.message # "" THEN Str(error.message)
        ELSE Str(GenericFallback)

\* The lines the error block of a form renders: nothing for the empty string.
rendered(error) ==
    IF error.isArray THEN error.items
    ELSE IF error.items[1] = "" THEN << >> ELSE error.items

Passwords == {"p", "q"}
Handled(view, err, message) == <<[view |-> view, err |-> err, message |-> message]>>
\* The error of a step that handled a submit and no failure.
NoError == AxiosError(<<>>, "")

\* The state a form has when its page mounts.
NewSignupForm ==
    [password |-> "", confirmPassword |-> "", error |-> Str(""), loading |-> FALSE]
NewLoginForm == [error |-> Str(""), loading |-> FALSE]

InitForms ==
    /\ signupForm = NewSignupForm
    /\ loginForm = NewLoginForm
    /\ toast = <<>>
    /\ shown = <<>>

\* The user types in the password fields of the signup form.
setPassword(value) ==
    /\ page = "/signup"
    /\ signupForm.password # value
    /\ signupForm' = [signupForm EXCEPT !.password = value]
    /\ shown' = <<>>
    /\ out' = NoOut
    /\ UNCHANGED <<storage, valid, page, login, loggedOut, loginForm, toast>>

setConfirmPassword(value) ==
    /\ page = "/signup"
    /\ signupForm.confirmPassword # value
    /\ signupForm' = [signupForm EXCEPT !.confirmPassword = value]
    /\ shown' = <<>>
    /\ out' = NoOut
    /\ UNCHANGED <<storage, valid, page, login, loggedOut, loginForm, toast>>

\* Variant: the form enters the loading state before the passwords are
\* compared.
SignupPage_handleSubmit_loadingFirst ==
    /\ page = "/signup"
    /\ ~signupForm.loading
    /\ signupForm.password # ""
    /\ signupForm.confirmPassword # ""
    /\ IF signupForm.password # signupForm.confirmPassword
       THEN /\ signupForm' = [signupForm EXCEPT !.error = Str("Passwords do not match."),
                                                !.loading = TRUE]
            /\ out' = NoOut
       ELSE /\ signupForm' = [signupForm EXCEPT !.error = Str(""), !.loading = TRUE]
            /\ out' = [NoOut EXCEPT !.req = Request("signup", storage)]
    /\ shown' = Handled("submit", NoError, signupForm'.error)
    /\ UNCHANGED <<storage, valid, page, login, loggedOut, loginForm, toast>>
\* SignupPage.handleSubmit up to the request of authApi.signup; the inputs
\* are required, so the browser submits no empty one.
SignupPage_handleSubmit ==
    /\ page = "/signup"
    /\ ~signupForm.loading
    /\ signupForm.password # ""
    /\ signupForm.confirmPassword # ""
    /\ IF signupForm.password # signupForm.confirmPassword
       THEN /\ signupForm' = [signupForm EXCEPT !.error = Str("Passwords do not match.")]
            /\ out' = NoOut
       ELSE /\ signupForm' = [signupForm EXCEPT !.error = Str(""), !.loading = TRUE]
            /\ out' = [NoOut EXCEPT !.req = Request("signup", storage)]
    /\ shown' = Handled("submit", NoError, signupForm'.error)
    /\ UNCHANGED <<storage, valid, page, login, loggedOut, loginForm, toast>>

\* The signup request succeeds: the page pushes /login and unmounts.
SignupPage_signedUp ==
    /\ signupForm.loading
    /\ signupForm' = NewSignupForm
    /\ page' = "/login"
    /\ out' = [NoOut EXCEPT !.done = Settled("signup", TRUE, 200, [none |-> TRUE])]
    /\ shown' = <<>>
    /\ UNCHANGED <<storage, valid, login, loggedOut, loginForm, toast>>

\* The signup request fails.
SignupPage_failed(err) ==
    /\ signupForm.loading
    /\ signupForm' = [signupForm EXCEPT !.error = SignupPage_catch(err), !.loading = FALSE]
    /\ out' = [NoOut EXCEPT !.done = Settled("signup", FALSE, 0, [none |-> TRUE])]
    /\ shown' = Handled("signup", err, signupForm'.error)
    /\ UNCHANGED <<storage, valid, page, login, loggedOut, loginForm, toast>>

\* LoginPage.handleSubmit, around authApi.login.
LoginPage_handleSubmit ==
    /\ ~loginForm.loading
    /\ authApi_login
    /\ loginForm' = [error |-> Str(""), loading |-> TRUE]
    /\ shown' = <<>>
    /\ UNCHANGED <<signupForm, toast>>

\* The login succeeds: the page pushes /dashboard and unmounts.
LoginPage_loggedIn(data) ==
    /\ authApi_login_success(data)
    /\ loginForm' = NewLoginForm
    /\ shown' = <<>>
    /\ UNCHANGED <<signupForm, toast>>

LoginPage_failed(err) ==
    /\ authApi_login_failure(IF err.response = <<>> THEN 0 ELSE err.response[1].status)
    /\ loginForm' = [error |-> LoginPage_catch(err), loading |-> FALSE]
    /\ shown' = Handled("login", err, loginForm'.error)
    /\ UNCHANGED <<signupForm, toast>>

\* onError of a mutation hook: toast.error(getErrorMessage(error)).
useMutation_onError(err) ==
    /\ page = "/dashboard"
    /\ toast' = <<getErrorMessage(err)>>
    /\ shown' = Handled("toast", err, toast'[1])
    /\ out' = NoOut
    /\ UNCHANGED <<storage, valid, page, login, loggedOut, signupForm, loginForm>>

\* The user opens another page: the page that was shown unmounts, and its
\* form state and requests are dropped with it.
openForm(route) ==
    /\ openPage(route)
    /\ login = "idle"
    /\ signupForm' = NewSignupForm
    /\ loginForm' = NewLoginForm
    /\ shown' = <<>>
    /\ UNCHANGED toast

NextForms ==
    \/ \E route \in Routes : openForm(route) /\ UNCHANGED <<cacheVars, widgetVars>>
    \/ \E v \in Passwords : setPassword(v) /\ UNCHANGED <<cacheVars, widgetVars>>
    \/ \E v \in Passwords : setConfirmPassword(v) /\ UNCHANGED <<cacheVars, widgetVars>>
    \/ SignupPage_handleSubmit /\ UNCHANGED <<cacheVars, widgetVars>>
    \/ SignupPage_signedUp /\ UNCHANGED <<cacheVars, widgetVars>>
    \/ \E err \in Errors : SignupPage_failed(err) /\ UNCHANGED <<cacheVars, widgetVars>>
    \/ LoginPage_handleSubmit /\ UNCHANGED <<cacheVars, widgetVars>>
    \/ \E a \in AccessTokens, r \in RefreshTokens :
            LoginPage_loggedIn([access |-> a, refresh |-> r]) /\ UNCHANGED <<cacheVars, widgetVars>>
    \/ \E err \in Errors : LoginPage_failed(err) /\ UNCHANGED <<cacheVars, widgetVars>>
    \/ \E err \in Errors : useMutation_onError(err) /\ UNCHANGED <<cacheVars, widgetVars>>

\* ------------------------------------------------------------------- card
CardHooks == {"updateTask", "completeTask", "deleteTask", "enhanceTask"}

\* hook.mutate(variables): updates is void for the hooks whose variables are
\* the task id alone.
Mutate(hook, id, updates) == [hook |-> hook, id |-> id, updates |-> updates]

\* The request the mutationFn of a hook sends through tasksApi.
mutationFn(call) ==
    CASE call.hook = "updateTask" ->
            [method |-> "PATCH", path |-> "/tasks/{id}/", id |-> call.id, body |-> call.updates]
      [] call.hook = "deleteTask" ->
            [method |-> "DELETE", path |-> "/tasks/{id}/", id |-> call.id, body |-> [void |-> TRUE]]
      [] call.hook = "completeTask" ->
            [method |-> "POST", path |-> "/tasks/{id}/complete/", id |-> call.id,
             body |-> [void |-> TRUE]]
      [] call.hook = "enhanceTask" ->
            [method |-> "POST", path |-> "/tasks/{id}/ai_enhance/", id |-> call.id,
             body |-> [context_data |-> << >>]]

\* Variant: the checkbox always completes the task.
handleToggleComplete_alwaysComplete(task) ==
    <<Mutate("completeTask", task.id, [void |-> TRUE])>>
\* TaskCard.handleToggleComplete: the mutate calls it makes.
handleToggleComplete(task) ==
    IF task.is_completed
    THEN <<Mutate("updateTask", task.id, [is_completed |-> FALSE])>>
    ELSE <<Mutate("completeTask", task.id, [void |-> TRUE])>>

\* Variant: the task is deleted whatever window.confirm returns.
handleDelete_noConfirm(task, accepted) ==
    <<Mutate("deleteTask", task.id, [void |-> TRUE])>>
\* TaskCard.handleDelete: accepted is what window.confirm returned.
handleDelete(task, accepted) ==
    IF accepted THEN <<Mutate("deleteTask", task.id, [void |-> TRUE])>> ELSE << >>

\* TaskCard.handleEnhance.
handleEnhance(task) == <<Mutate("enhanceTask", task.id, [void |-> TRUE])>>

Ran(name, task, accepted) == <<[name |-> name, task |-> task, accepted |-> accepted]>>

\* The card of a task at its first render.
NewCard(task) ==
    [task |-> task, pending |-> [h \in CardHooks |-> << >>],
     handler |-> << >>, calls |-> << >>]

\* The descriptions a task's ai_enhanced_description can hold: none, or a text.
Descriptions == {"", "enhanced"}

\* The task props a card can be given.
CardTasks ==
    {[id |-> id, is_completed |-> done, ai_enhanced_description |-> d] :
        id \in TaskIds, done \in BOOLEAN, d \in Descriptions}

InitCard == card \in {NewCard(task) : task \in CardTasks}

\* Variant: the enhance button is always rendered.
offersEnhance_always(task) == TRUE
\* The condition under which the card renders its enhance button.
offersEnhance(task) == ~task.is_completed /\ task.ai_enhanced_description = ""

\* Where no step is a step of the card, it is the card of task 1.
OneCard == card = NewCard([id |-> 1, is_completed |-> FALSE, ai_enhanced_description |-> ""])

\* -------------------------------------------------------------- task form
\* What the title input may hold, and String.prototype.trim of it.
Titles == {"", "  ", "buy milk", " buy milk "}
trim(s) ==
    CASE s = "  " -> ""
      [] s = " buy milk " -> "buy milk"
      [] OTHER -> s

\* The tasks the edit button of a card can hand to the form.
EditTasks == {[id |-> id, title |-> t] : id \in TaskIds, t \in {"buy milk", "  "}}

\* useState of TaskForm.
NewFormData == [title |-> "", enhance_with_ai |-> TRUE]

\* TaskForm's useEffect: the form data of the task being edited.
formDataOf(task) == [title |-> task.title, enhance_with_ai |-> FALSE]

\* Variant: the update carries the enhance-with-AI flag of the form.
handleSubmit_withFlag(formData, task) ==
    LET taskData == [title |-> trim(formData.title), enhance_with_ai |-> formData.enhance_with_ai]
    IN  IF task # << >>
        THEN Mutate("updateTask", task[1].id, taskData)
        ELSE Mutate("createTask", undefined, taskData)
\* TaskForm.handleSubmit up to its await: the mutateAsync call it makes.
\* task is <<>> or the task prop.
handleSubmit(formData, task) ==
    LET taskData == [title |-> trim(formData.title), enhance_with_ai |-> formData.enhance_with_ai]
    IN  IF task # << >>
        THEN Mutate("updateTask", task[1].id, [title |-> taskData.title])
        ELSE Mutate("createTask", undefined, taskData)

\* Variant: the submit button is disabled for the empty title only.
submitDisabled_untrimmed(formData, isLoading) == isLoading \/ formData.title = ""
\* disabled of the submit button; the title input is required.
submitDisabled(formData, isLoading) == isLoading \/ trim(formData.title) = ""

\* DashboardPage.handleTaskUpdated: the calls it makes.
handleTaskUpdated == <<"refetch">>

\* The onSuccess prop the dashboard gives the form, () => handleTaskUpdated:
\* it evaluates to the function and calls nothing.
DashboardPage_TaskForm_onSuccess == << >>

\* What a step of the form did: the handler, the callbacks of the parent it
\* called in order, and the calls those made.
FormEvent(name, callbacks, parentCalls) ==
    <<[name |-> name, callbacks |-> callbacks, parentCalls |-> parentCalls]>>

InitTaskForm ==
    taskForm = [open |-> FALSE, task |-> << >>, synced |-> TRUE, formData |-> NewFormData,
                pending |-> << >>, event |-> << >>]

\* ---------------------------------------------------------------- AI panels
ContextIds == {1, 2}

\* The entries of a set of ids, in the order of their ids.
RECURSIVE entriesOf(_)
entriesOf(S) ==
    IF S = {} THEN << >>
    ELSE LET i == CHOOSE i \in S : \A j \in S : i <= j
         IN  <<[id |-> i]>> \o entriesOf(S \ {i})

\* A call of contextApi or tasksApi by a panel; ids are its arguments.
PanelCall(call, ids) == [call |-> call, ids |-> ids]

\* The HTTP request of a call.
panelRequest(c) ==
    CASE c.call = "getUnprocessed" ->
            [method |-> "GET", path |-> "/context/unprocessed/", id |-> undefined,
             body |-> [void |-> TRUE]]
      [] c.call = "analyzeContext" ->
            [method |-> "POST", path |-> "/context/{id}/analyze/", id |-> c.ids[1],
             body |-> [void |-> TRUE]]
      [] c.call = "bulkProcess" ->
            [method |-> "POST", path |-> "/context/bulk_process/", id |-> undefined,
             body |-> [entry_ids |-> c.ids]]
      [] c.call = "enhanceTask" ->
            [method |-> "POST", path |-> "/tasks/{id}/ai_enhance/", id |-> c.ids[1],
             body |-> [context_data |-> << >>]]
      [] c.call = "recalculatePriority" ->
            [method |-> "POST", path |-> "/tasks/{id}/recalculate_priority/", id |-> c.ids[1],
             body |-> [void |-> TRUE]]
      [] c.call = "getAIRecommendations" ->
            [method |-> "GET", path |-> "/tasks/ai_recommendations/", id |-> undefined,
             body |-> [limit |-> 5]]

\* A request in flight: its number in the order of sending, the handler that
\* awaits it, and the answer once the service has produced it.
InFlight(n, c, by) == [n |-> n, call |-> c.call, ids |-> c.ids, by |-> by, reply |-> << >>]

\* Answers: the call succeeds, reports {success: false}, or throws.
Outcomes == {"success", "failure", "throw"}
Reply(outcome, entries) == <<[outcome |-> outcome, entries |-> entries]>>

\* AIContextAnalyzer.fetchUnprocessedEntries.
fetchUnprocessedEntries == <<PanelCall("getUnprocessed", << >>)>>

\* AIContextAnalyzer.handleAnalyzeSingle up to its await.
handleAnalyzeSingle(entryId) == <<PanelCall("analyzeContext", <<entryId>>)>>

\* Variant: one analyze call for each listed entry.
handleBulkProcess_fanOut(entries) ==
    [j \in 1..Len(entries) |-> PanelCall("analyzeContext", <<entries[j].id>>)]
\* AIContextAnalyzer.handleBulkProcess up to its await.
handleBulkProcess(entries) ==
    IF Len(entries) = 0 THEN << >>
    ELSE <<PanelCall("bulkProcess", [j \in 1..Len(entries) |-> entries[j].id])>>

\* Variant: an answer is dropped when a request sent later has already been
\* answered.
setUnprocessedEntries_newestOnly(a, req) ==
    IF req.reply[1].outcome = "success"
            /\ \A j \in 1..Len(a.order) : a.order[j] < req.n
    THEN req.reply[1].entries
    ELSE a.entries
\* fetchUnprocessedEntries after its await: the list the panel then holds.
setUnprocessedEntries(a, req) ==
    IF req.reply[1].outcome = "success" THEN req.reply[1].entries ELSE a.entries

\* Variant: the busy flag is not reset when the call throws.
analysisSettled_noFinally(a, call, outcome) ==
    CASE outcome = "success" -> [a EXCEPT !.results = @ + 1]
      [] outcome = "failure" ->
            [a EXCEPT !.analyzing = FALSE,
                      !.error = IF call = "bulkProcess" THEN "Bulk processing failed"
                                ELSE "Analysis failed"]
      [] outcome = "throw" ->
            [a EXCEPT !.error = IF call = "bulkProcess" THEN "Failed to process context entries"
                                ELSE "Failed to analyze context entry"]
\* handleAnalyzeSingle and handleBulkProcess after the await of their call:
\* on success the handler goes on to await fetchUnprocessedEntries, else it
\* sets the error and its finally block clears the busy flag.
analysisSettled(a, call, outcome) ==
    CASE outcome = "success" -> [a EXCEPT !.results = @ + 1]
      [] outcome = "failure" ->
            [a EXCEPT !.analyzing = FALSE,
                      !.error = IF call = "bulkProcess" THEN "Bulk processing failed"
                                ELSE "Analysis failed"]
      [] outcome = "throw" ->
            [a EXCEPT !.analyzing = FALSE,
                      !.error = IF call = "bulkProcess" THEN "Failed to process context entries"
                                ELSE "Failed to analyze context entry"]

\* What a step of a panel did: the handler, the requests it sent, and the
\* request whose answer it handled.
PanelEvent(name, calls, resolved) ==
    <<[name |-> name, sent |-> [j \in 1..Len(calls) |-> panelRequest(calls[j])],
       resolved |-> resolved]>>

InitPanels ==
    /\ analyzer = [started |-> FALSE, entries |-> << >>, analyzing |-> FALSE, error |-> "",
                   results |-> 0, inflight |-> {}, order |-> << >>, event |-> << >>]
    /\ enhancer = [isEnhancing |-> FALSE, error |-> "", result |-> << >>, inflight |-> {},
                   event |-> << >>]
    /\ recs = [started |-> FALSE, loading |-> FALSE, error |-> "", recommendations |-> << >>,
               inflight |-> {}, event |-> << >>]
    /\ contextServer = {}
    /\ nSent = 0

\* --------------------------------------------------------------------- Init
\* A behaviour follows one query, or the task lists of the filter objects
\* that differ in the priority only: high and medium.
InitFollowing(scopes) ==
    /\ tracked \in scopes
    /\ cache = << >>
    /\ backend \in {[ver |-> 0, cats |-> cats] : cats \in InitialCats}
    /\ mounted = FALSE
    /\ filters = DefaultFilters
    /\ ev = NoEvent
    /\ dirty = [k \in tracked |-> 0]
    /\ nEvents = 0
    /\ InitAuth
    /\ InitForms
    /\ InitTaskForm
    /\ InitPanels

Init == InitFollowing({{k} : k \in Keys}) /\ OneCard

InitLists ==
    InitFollowing({{taskKeys_list(apiFilters([DefaultFilters EXCEPT !.priority = p])) :
                        p \in {"high", "medium"}}})
    /\ OneCard

\* -------------------------------------------------------------------- reads
\* The dashboard page mounts: useTasks(apiFilters), useCategories,
\* useTaskStats, useTodayTasks, useOverdueTasks.
DashboardMount ==
    /\ ~mounted
    /\ mounted' = TRUE
    /\ Commit(observe(Store(cache, backend), observedKeys(filters)), {}, <<>>)
    /\ UNCHANGED <<filters, nEvents>>

DashboardUnmount ==
    /\ mounted
    /\ mounted' = FALSE
    /\ ev' = NoEvent
    /\ UNCHANGED <<tracked, cache, backend, filters, dirty, nEvents>>

\* handleFilterChange: the list observer moves to the key of the new filters.
handleFilterChange(p) ==
    /\ mounted
    /\ filters.priority # p
    /\ filters' = [filters EXCEPT !.priority = p]
    /\ Commit(observe(Store(cache, backend), {taskKeys_list(apiFilters(filters'))}), {}, <<>>)
    /\ UNCHANGED <<mounted, nEvents>>

\* useTask(id): disabled for a falsy id.
useTask(id) ==
    /\ id # undefined
    /\ Commit(observe(Store(cache, backend), {taskKeys_detail(id)}), {}, <<>>)
    /\ UNCHANGED <<mounted, filters, nEvents>>

\* Variant: a response is dropped when the query was invalidated after the
\* request was sent.
QuerySuccess_dropInvalidated(k) ==
    /\ k \in DOMAIN cache
    /\ cache[k].fetchStatus = "fetching"
    /\ cache' = [cache EXCEPT ![k] =
                    IF cache[k].isInvalidated
                    THEN [@ EXCEPT !.snap = <<>>, !.fetchStatus = "idle"]
                    ELSE [@ EXCEPT !.data = cache[k].snap, !.snap = <<>>,
                                   !.expired = FALSE, !.fetchStatus = "idle"]]
    /\ ev' = NoEvent
    /\ UNCHANGED <<tracked, backend, mounted, filters, dirty, nEvents>>
\* The response of a pending query request arrives.
QuerySuccess(k) ==
    /\ k \in DOMAIN cache
    /\ cache[k].fetchStatus = "fetching"
    /\ cache' = [cache EXCEPT ![k] =
                    [@ EXCEPT !.data = cache[k].snap, !.snap = <<>>, !.isInvalidated = FALSE,
                              !.expired = FALSE, !.fetchStatus = "idle"]]
    /\ ev' = NoEvent
    /\ UNCHANGED <<tracked, backend, mounted, filters, dirty, nEvents>>

\* A pending query request fails, and so does every retry of it, until the
\* retryer gives up at the n-th failure.  The query keeps its data and its
\* invalidation mark.
QueryError(k, n, first, status) ==
    /\ nEvents < MaxEvents
    /\ nEvents' = nEvents + 1
    /\ k \in DOMAIN cache
    /\ cache[k].fetchStatus = "fetching"
    /\ GivesUp("query", n, first, status)
    /\ cache' = [cache EXCEPT ![k] = [@ EXCEPT !.snap = <<>>, !.fetchStatus = "idle"]]
    /\ ev' = [NoEvent EXCEPT !.error = Surfaced(k, n, first, status)]
    /\ UNCHANGED <<tracked, backend, mounted, filters, dirty>>

\* The freshness window of a query's data runs out.
Expire(k) ==
    /\ k \in DOMAIN cache
    /\ Len(cache[k].data) > 0
    /\ ~cache[k].expired
    /\ cache' = [cache EXCEPT ![k].expired = TRUE]
    /\ ev' = NoEvent
    /\ UNCHANGED <<tracked, backend, mounted, filters, dirty, nEvents>>

\* ---------------------------------------------------------------- mutations
\* A mutation is one step: mutate(variables) sends the request, the service
\* answers, and onSuccess or onError runs.  Nothing the client keeps changes
\* while the request is in flight, so steps of other handlers that fall
\* between the request and its answer are steps before this one.
\* id is the task or category id among the variables (undefined for a create).
MutationInputs ==
    {[op |-> "createTask", id |-> undefined], [op |-> "createCategory", id |-> undefined]}
    \cup {[op |-> op, id |-> id] : op \in TaskOps \ {"createTask"}, id \in TaskIds}
    \cup {[op |-> op, id |-> id] : op \in CatOps \ {"createCategory"}, id \in CatIds}

\* Response bodies are records; a call that resolves to nothing yields void.
void == [void |-> TRUE]

Done(m, ok, sent, resp) ==
    <<[op |-> m.op, id |-> m.id, ok |-> ok, sent |-> sent, resp |-> resp]>>

\* The request of a mutation fails until the retryer gives up: onError shows
\* a toast and touches no query.
MutationError(m, n, status) ==
    /\ nEvents < MaxEvents
    /\ nEvents' = nEvents + 1
    /\ \E first \in Statuses : GivesUp("mutation", n, first, status)
    /\ ev' = [NoEvent EXCEPT !.done = Done([m EXCEPT !.id = undefined], FALSE, n, void)]
    /\ UNCHANGED <<tracked, cache, backend, mounted, filters, dirty>>

\* A property of a response body; a missing property reads as undefined.
idOf(r) == IF "id" \in DOMAIN r THEN r.id ELSE undefined

\* Variant: the today key is not invalidated.
useCreateTask_onSuccess_withOverdue(st, newTask) ==
    LET s1 == invalidateQueries(st, taskKeys_lists)
        s2 == invalidateQueries(s1, taskKeys_stats)
        s3 == invalidateQueries(s2, taskKeys_today)
    IN  invalidateQueries(s3, taskKeys_overdue)
useCreateTask_onSuccess_noToday(st, newTask) ==
    LET s1 == invalidateQueries(st, taskKeys_lists)
    IN  invalidateQueries(s1, taskKeys_stats)
useCreateTask_onSuccess(st, newTask) ==
    LET s1 == invalidateQueries(st, taskKeys_lists)
        s2 == invalidateQueries(s1, taskKeys_stats)
    IN  invalidateQueries(s2, taskKeys_today)

useUpdateTask_onSuccess(st, updatedTask) ==
    LET s0 == setQueryData(st, taskKeys_detail(idOf(updatedTask)), updatedTask)
        s1 == invalidateQueries(s0, taskKeys_lists)
        s2 == invalidateQueries(s1, taskKeys_stats)
        s3 == invalidateQueries(s2, taskKeys_today)
    IN  invalidateQueries(s3, taskKeys_overdue)

\* Variant: the detail queries of all ids are removed.
useDeleteTask_onSuccess_allDetails(st, deletedId) ==
    LET s0 == removeQueries(st, taskKeys_details)
        s1 == invalidateQueries(s0, taskKeys_lists)
        s2 == invalidateQueries(s1, taskKeys_stats)
        s3 == invalidateQueries(s2, taskKeys_today)
    IN  invalidateQueries(s3, taskKeys_overdue)
useDeleteTask_onSuccess(st, deletedId) ==
    LET s0 == removeQueries(st, taskKeys_detail(deletedId))
        s1 == invalidateQueries(s0, taskKeys_lists)
        s2 == invalidateQueries(s1, taskKeys_stats)
        s3 == invalidateQueries(s2, taskKeys_today)
    IN  invalidateQueries(s3, taskKeys_overdue)

useCompleteTask_onSuccess(st, completedTask) ==
    LET s0 == setQueryData(st, taskKeys_detail(idOf(completedTask)), completedTask)
        s1 == invalidateQueries(s0, taskKeys_lists)
        s2 == invalidateQueries(s1, taskKeys_stats)
        s3 == invalidateQueries(s2, taskKeys_today)
    IN  invalidateQueries(s3, taskKeys_overdue)

\* Variant: the statistics are invalidated too.
useEnhanceTask_onSuccess_withStats(st, enhancedTask) ==
    LET s0 == setQueryData(st, taskKeys_detail(idOf(enhancedTask)), enhancedTask)
        s1 == invalidateQueries(s0, taskKeys_lists)
    IN  invalidateQueries(s1, taskKeys_stats)
useEnhanceTask_onSuccess(st, enhancedTask) ==
    LET s0 == setQueryData(st, taskKeys_detail(idOf(enhancedTask)), enhancedTask)
    IN  invalidateQueries(s0, taskKeys_lists)

\* The prefixes each task mutation's onSuccess passes to invalidateQueries.
InvalidationPrefixes(op) ==
    CASE op = "createTask" -> {taskKeys_lists, taskKeys_stats, taskKeys_today}
      [] op \in {"updateTask", "deleteTask", "completeTask"} ->
            {taskKeys_lists, taskKeys_stats, taskKeys_today, taskKeys_overdue}
      [] op = "enhanceTask" -> {taskKeys_lists}
      [] OTHER -> {}

InvalidationSet(op) ==
    {k \in Keys : \E p \in InvalidationPrefixes(op) : partialMatchKey(k, p)}

\* POST /tasks/{id}/ai_enhance/ is typed Promise<any>: the hook reads the body
\* as a Task, the enhancer panel reads the same call's body as
\* {success, enhancements, task}.
EnhanceReply(shape, task) ==
    IF shape = "task" THEN task ELSE [success |-> TRUE, task |-> task]

\* The request of a task mutation succeeds: the service applies it and
\* answers, and the hook's onSuccess runs.
TaskMutationSuccess(m, shape) ==
    /\ nEvents < MaxEvents
    /\ nEvents' = nEvents + 1
    /\ m.op \in TaskOps
    /\ LET b == [backend EXCEPT !.ver = @ + 1]
           st == Store(cache, b)
           task == Task(m.id, b)
           resp == CASE m.op = "enhanceTask" -> EnhanceReply(shape, task)
                     [] m.op = "deleteTask" -> void
                     [] OTHER -> task
           st1 == CASE m.op = "createTask" -> useCreateTask_onSuccess(st, resp)
                    [] m.op = "updateTask" -> useUpdateTask_onSuccess(st, resp)
                    [] m.op = "deleteTask" -> useDeleteTask_onSuccess(st, m.id)
                    [] m.op = "completeTask" -> useCompleteTask_onSuccess(st, resp)
                    [] m.op = "enhanceTask" -> useEnhanceTask_onSuccess(st, resp)
       IN  Commit(st1, InvalidationSet(m.op), Done(m, TRUE, 1, resp))
    /\ UNCHANGED <<mounted, filters>>

\* ------------------------------------------------------- category mutations
hasCategory(cats, id) == \E j \in 1..Len(cats) : cats[j].id = id

\* Variant: the updated category moves to the end of the list.
mapReplace_moveToEnd(old, updatedCategory) ==
    LET keep(cat) == cat.id # idOf(updatedCategory)
    IN  Append(SelectSeq(old, keep), updatedCategory)
\* old.map(cat => cat.id === updatedCategory.id ? updatedCategory : cat)
mapReplace(old, updatedCategory) ==
    [j \in 1..Len(old) |->
        IF old[j].id = idOf(updatedCategory) THEN updatedCategory ELSE old[j]]

\* old.filter(cat => cat.id !== deletedId)
filterOut(old, deletedId) ==
    LET keep(cat) == cat.id # deletedId
    IN  SelectSeq(old, keep)

\* Variant: the new category is put in front.
useCreateCategory_onSuccess_prepend(st, newCategory) ==
    LET old == build(st.cache, categoryKeys_lists).data
    IN  setQueryData(st, categoryKeys_lists,
                     IF Len(old) = 0 THEN <<newCategory>>
                     ELSE <<newCategory>> \o old[1])
\* setQueryData with an updater function: the updater receives the query's
\* current data, or undefined.
useCreateCategory_onSuccess(st, newCategory) ==
    LET old == build(st.cache, categoryKeys_lists).data
    IN  setQueryData(st, categoryKeys_lists,
                     IF Len(old) = 0 THEN <<newCategory>>
                     ELSE Append(old[1], newCategory))

useUpdateCategory_onSuccess(st, updatedCategory) ==
    LET s0 == setQueryData(st, categoryKeys_detail(idOf(updatedCategory)), updatedCategory)
        old == build(s0.cache, categoryKeys_lists).data
    IN  setQueryData(s0, categoryKeys_lists,
                     IF Len(old) = 0 THEN <<updatedCategory>>
                     ELSE mapReplace(old[1], updatedCategory))

\* Variant: the cached list is emptied.
useDeleteCategory_onSuccess_clear(st, deletedId) ==
    LET s0 == removeQueries(st, categoryKeys_detail(deletedId))
    IN  setQueryData(s0, categoryKeys_lists, << >>)
useDeleteCategory_onSuccess(st, deletedId) ==
    LET s0 == removeQueries(st, categoryKeys_detail(deletedId))
        old == build(s0.cache, categoryKeys_lists).data
    IN  setQueryData(s0, categoryKeys_lists,
                     IF Len(old) = 0 THEN << >>
                     ELSE filterOut(old[1], deletedId))

\* The service's side of the category endpoints.
FreeCatIds(b) == {c \in CatIds : ~hasCategory(b.cats, c)}

\* POST /categories/ succeeds: the service stores the category under a new id.
CreateCategorySuccess(m, newId) ==
    /\ nEvents < MaxEvents
    /\ nEvents' = nEvents + 1
    /\ m.op = "createCategory"
    /\ newId \in FreeCatIds(backend)
    /\ LET newCategory == [id |-> newId, rev |-> 0]
           b == [backend EXCEPT !.cats = Append(@, newCategory)]
       IN  Commit(useCreateCategory_onSuccess(Store(cache, b), newCategory), {},
                  Done(m, TRUE, 1, newCategory))
    /\ UNCHANGED <<mounted, filters>>

\* PATCH /categories/{id}/ succeeds.
UpdateCategorySuccess(m) ==
    /\ nEvents < MaxEvents
    /\ nEvents' = nEvents + 1
    /\ m.op = "updateCategory"
    /\ hasCategory(backend.cats, m.id)
    /\ LET j == CHOOSE i \in 1..Len(backend.cats) : backend.cats[i].id = m.id
           updatedCategory == [backend.cats[j] EXCEPT !.rev = @ + 1]
           b == [backend EXCEPT !.cats[j] = updatedCategory]
       IN  Commit(useUpdateCategory_onSuccess(Store(cache, b), updatedCategory), {},
                  Done(m, TRUE, 1, updatedCategory))
    /\ UNCHANGED <<mounted, filters>>

\* DELETE /categories/{id}/ succeeds.
DeleteCategorySuccess(m) ==
    /\ nEvents < MaxEvents
    /\ nEvents' = nEvents + 1
    /\ m.op = "deleteCategory"
    /\ hasCategory(backend.cats, m.id)
    /\ LET b == [backend EXCEPT !.cats = filterOut(@, m.id)]
       IN  Commit(useDeleteCategory_onSuccess(Store(cache, b), m.id), {},
                  Done(m, TRUE, 1, void))
    /\ UNCHANGED <<mounted, filters>>

\* A behaviour that follows the category list and the detail query of one
\* category, from a state in which that category may have been updated
\* before: the state useUpdateCategory's onSuccess leaves, with the list
\* cached or not.
InitCategories ==
    \E i \in {1, 2}, cats \in InitialCats, listed \in BOOLEAN, updated \in BOOLEAN :
        LET j == CHOOSE n \in 1..Len(cats) : cats[n].id = i
            u == [cats[j] EXCEPT !.rev = @ + 1]
            c0 == IF listed
                  THEN (categoryKeys_lists :> [NewQuery EXCEPT !.data = <<cats>>])
                  ELSE << >>
            b1 == [ver |-> 0, cats |-> [cats EXCEPT ![j] = u]]
            st == useUpdateCategory_onSuccess(Store(c0, b1), u)
        IN  /\ tracked = {categoryKeys_lists, categoryKeys_detail(i)}
            /\ cache = IF updated THEN st.cache ELSE c0
            /\ backend = IF updated THEN b1 ELSE [ver |-> 0, cats |-> cats]
            /\ mounted = FALSE
            /\ filters = DefaultFilters
            /\ ev = NoEvent
            /\ dirty = [k \in tracked |-> 0]
            /\ nEvents = 0
            /\ InitAuth
            /\ InitForms
            /\ InitTaskForm
            /\ InitPanels
            /\ OneCard

\* --------------------------------------------------------------- task card
isPending(h) == card.pending[h] # << >>

\* A handler of the card runs to its end: each mutate call makes its hook
\* pending and sends the hook's request. No handler touches the query cache.
runs(name, accepted, calls) ==
    /\ mounted
    /\ card' = [card EXCEPT
            !.pending = [h \in CardHooks |->
                            IF \E j \in 1..Len(calls) : calls[j].hook = h
                            THEN <<calls[CHOOSE j \in 1..Len(calls) : calls[j].hook = h]>>
                            ELSE @[h]],
            !.handler = Ran(name, card.task, accepted),
            !.calls = [j \in 1..Len(calls) |-> mutationFn(calls[j])]]
    /\ UNCHANGED <<cacheVars, authVars, formVars, besidesCard>>

\* The checkbox: disabled while completeTask or updateTask is pending.
onToggle ==
    /\ ~(isPending("completeTask") \/ isPending("updateTask"))
    /\ runs("handleToggleComplete", TRUE, handleToggleComplete(card.task))

\* The delete button: disabled while deleteTask is pending.
onDeleteClick(accepted) ==
    /\ ~isPending("deleteTask")
    /\ runs("handleDelete", accepted, handleDelete(card.task, accepted))

\* The enhance button: rendered for a task that is incomplete and has no
\* enhanced description, disabled while enhanceTask is pending.
onEnhanceClick ==
    /\ offersEnhance(card.task)
    /\ ~isPending("enhanceTask")
    /\ runs("handleEnhance", TRUE, handleEnhance(card.task))

\* The step is not a handler of the card.
returned(c) == [c EXCEPT !.handler = << >>, !.calls = << >>]

\* The list gives the card its task again, with other values.
render(task) ==
    /\ mounted
    /\ task.id = card.task.id
    /\ task # card.task
    /\ card' = returned([card EXCEPT !.task = task])
    /\ UNCHANGED <<cacheVars, authVars, formVars, besidesCard>>

\* The pending mutation of a hook settles.
CardMutationSuccess(h, shape) ==
    /\ isPending(h)
    /\ TaskMutationSuccess([op |-> h, id |-> card.pending[h][1].id], shape)
    /\ card' = returned([card EXCEPT !.pending[h] = << >>])
    /\ UNCHANGED <<authVars, formVars, besidesCard>>

CardMutationError(h, n, status) ==
    /\ isPending(h)
    /\ MutationError([op |-> h, id |-> card.pending[h][1].id], n, status)
    /\ card' = returned([card EXCEPT !.pending[h] = << >>])
    /\ UNCHANGED <<authVars, formVars, besidesCard>>

NextCard ==
    \/ DashboardMount /\ card' = returned(card) /\ UNCHANGED <<authVars, formVars, besidesCard>>
    \/ \E k \in Keys : QuerySuccess(k) /\ card' = returned(card) /\ UNCHANGED <<authVars, formVars, besidesCard>>
    \/ onToggle
    \/ \E accepted \in BOOLEAN : onDeleteClick(accepted)
    \/ onEnhanceClick
    \/ \E task \in CardTasks : render(task)
    \/ \E h \in CardHooks, shape \in EnhanceShapes : CardMutationSuccess(h, shape)
    \/ \E h \in CardHooks, n \in 1..MaxFailures, s \in Statuses : CardMutationError(h, n, s)

\* --------------------------------------------------------- task form steps
\* DashboardPage.handleCloseForm.
handleCloseForm(f) == [f EXCEPT !.open = FALSE, !.task = << >>]

\* A mounted TaskForm starts from useState; with a task its effect is due.
mountForm(task) ==
    /\ mounted
    /\ ~taskForm.open
    /\ taskForm' = [taskForm EXCEPT !.open = TRUE, !.task = task, !.synced = task = << >>,
                                    !.formData = NewFormData, !.event = << >>]
    /\ UNCHANGED <<cacheVars, authVars, formVars, besidesTaskForm>>

\* The add-task buttons of the dashboard: setShowTaskForm(true).
openTaskForm == mountForm(<< >>)

\* DashboardPage.handleEditTask.
handleEditTask(task) == mountForm(<<task>>)

\* The effect of TaskForm for the task prop.
TaskForm_useEffect ==
    /\ taskForm.open
    /\ ~taskForm.synced
    /\ taskForm' = [taskForm EXCEPT !.synced = TRUE, !.formData = formDataOf(taskForm.task[1]),
                                    !.event = << >>]
    /\ UNCHANGED <<cacheVars, authVars, formVars, besidesTaskForm>>

\* TaskForm.handleChange of the title input and of the checkbox.
handleChange(name, value) ==
    /\ taskForm.open
    /\ taskForm.synced
    /\ taskForm.formData[name] # value
    /\ taskForm' = [taskForm EXCEPT !.formData[name] = value, !.event = << >>]
    /\ UNCHANGED <<cacheVars, authVars, formVars, besidesTaskForm>>

\* The form is submitted: its button is enabled. One mutation of the form
\* is followed at a time.
TaskForm_submit ==
    /\ taskForm.open
    /\ taskForm.synced
    /\ taskForm.pending = << >>
    /\ ~submitDisabled(taskForm.formData, taskForm.pending # << >>)
    /\ taskForm' = [taskForm EXCEPT
            !.pending = <<handleSubmit(taskForm.formData, taskForm.task)>>,
            !.event = FormEvent("handleSubmit", << >>, << >>)]
    /\ UNCHANGED <<cacheVars, authVars, formVars, besidesTaskForm>>

\* The X button of the form: onClose, whether or not a mutation is pending.
TaskForm_close ==
    /\ taskForm.open
    /\ taskForm' = [handleCloseForm(taskForm) EXCEPT !.event = FormEvent("close", <<"onClose">>, << >>)]
    /\ UNCHANGED <<cacheVars, authVars, formVars, besidesTaskForm>>

\* mutateAsync resolves after the hook's onSuccess: handleSubmit calls
\* onSuccess, then onClose.
TaskForm_resolved(shape) ==
    /\ taskForm.pending # << >>
    /\ TaskMutationSuccess([op |-> taskForm.pending[1].hook, id |-> taskForm.pending[1].id], shape)
    /\ taskForm' = [handleCloseForm(taskForm) EXCEPT
            !.pending = << >>,
            !.event = FormEvent("resolved", <<"onSuccess", "onClose">>,
                                DashboardPage_TaskForm_onSuccess)]
    /\ UNCHANGED <<authVars, formVars, besidesTaskForm>>

\* mutateAsync rejects after the hook's onError: the catch block is empty.
TaskForm_rejected(n, status) ==
    /\ taskForm.pending # << >>
    /\ MutationError([op |-> taskForm.pending[1].hook, id |-> taskForm.pending[1].id], n, status)
    /\ taskForm' = [taskForm EXCEPT !.pending = << >>,
                                    !.event = FormEvent("rejected", << >>, << >>)]
    /\ UNCHANGED <<authVars, formVars, besidesTaskForm>>

\* A step of the cache that is no step of the form.
quiet == taskForm' = [taskForm EXCEPT !.event = << >>]

NextTaskForm ==
    \/ DashboardMount /\ quiet /\ UNCHANGED <<authVars, formVars, besidesTaskForm>>
    \/ \E k \in Keys : QuerySuccess(k) /\ quiet /\ UNCHANGED <<authVars, formVars, besidesTaskForm>>
    \/ openTaskForm
    \/ \E task \in EditTasks : handleEditTask(task)
    \/ TaskForm_useEffect
    \/ \E value \in Titles : handleChange("title", value)
    \/ \E value \in BOOLEAN : handleChange("enhance_with_ai", value)
    \/ TaskForm_submit
    \/ TaskForm_close
    \/ \E shape \in EnhanceShapes : TaskForm_resolved(shape)
    \/ \E n \in 1..MaxFailures, s \in Statuses : TaskForm_rejected(n, s)

\* ----------------------------------------------------------- AI panel steps
\* The requests in flight after the calls are sent for the handler by.
withSent(inflight, calls, by) ==
    inflight \cup {InFlight(nSent + j, calls[j], by) : j \in 1..Len(calls)}

\* No request is ever withdrawn: the panels pass no abort signal.
withoutResolved(inflight, req) == inflight \ {req}

\* fetchUnprocessedEntries, from the mount effect or the Refresh button,
\* which is never disabled.
Analyzer_fetch(name) ==
    /\ nSent < MaxRequests
    /\ nSent' = nSent + 1
    /\ analyzer' = [analyzer EXCEPT
            !.started = TRUE,
            !.inflight = withSent(@, fetchUnprocessedEntries, "fetchUnprocessedEntries"),
            !.event = PanelEvent(name, fetchUnprocessedEntries, << >>)]
    /\ UNCHANGED <<enhancer, recs, contextServer>>
    /\ UNCHANGED <<cacheVars, authVars, formVars, besidesPanels>>

AIContextAnalyzer_useEffect == ~analyzer.started /\ Analyzer_fetch("useEffect")

Analyzer_refresh == analyzer.started /\ Analyzer_fetch("Refresh")

\* The Analyze button of a listed entry: disabled while analyzing.
Analyzer_analyze(entryId) ==
    /\ analyzer.started
    /\ ~analyzer.analyzing
    /\ \E j \in 1..Len(analyzer.entries) : analyzer.entries[j].id = entryId
    /\ nSent + 2 <= MaxRequests
    /\ nSent' = nSent + 1
    /\ analyzer' = [analyzer EXCEPT
            !.analyzing = TRUE, !.error = "",
            !.inflight = withSent(@, handleAnalyzeSingle(entryId), "handleAnalyzeSingle"),
            !.event = PanelEvent("handleAnalyzeSingle", handleAnalyzeSingle(entryId), << >>)]
    /\ UNCHANGED <<enhancer, recs, contextServer>>
    /\ UNCHANGED <<cacheVars, authVars, formVars, besidesPanels>>

\* handleBulkProcess: its button is disabled while analyzing; with an empty
\* list the handler returns before it sets anything.
Analyzer_bulk ==
    /\ analyzer.started
    /\ ~analyzer.analyzing
    /\ LET calls == handleBulkProcess(analyzer.entries)
       IN  /\ nSent + Len(calls) + 1 <= MaxRequests
           /\ nSent' = nSent + Len(calls)
           /\ analyzer' = [analyzer EXCEPT
                    !.analyzing = calls # << >>,
                    !.error = IF calls # << >> THEN "" ELSE @,
                    !.inflight = withSent(@, calls, "handleBulkProcess"),
                    !.event = PanelEvent("handleBulkProcess", calls, << >>)]
    /\ UNCHANGED <<enhancer, recs, contextServer>>
    /\ UNCHANGED <<cacheVars, authVars, formVars, besidesPanels>>

\* A context entry is recorded at the service.
ContextArrives(id) ==
    /\ id \notin contextServer
    /\ contextServer' = contextServer \cup {id}
    /\ analyzer' = [analyzer EXCEPT !.event = << >>]
    /\ UNCHANGED <<enhancer, recs, nSent>>
    /\ UNCHANGED <<cacheVars, authVars, formVars, besidesPanels>>

\* The service answers a request of the analyzer; the answer is on its way.
ContextServe(req, outcome) ==
    /\ req \in analyzer.inflight
    /\ req.reply = << >>
    /\ req.call = "getUnprocessed" => outcome # "failure"
    /\ LET processed == IF outcome = "success" /\ req.call # "getUnprocessed"
                        THEN {req.ids[j] : j \in 1..Len(req.ids)} ELSE {}
           reply == Reply(outcome, IF req.call = "getUnprocessed" /\ outcome = "success"
                                   THEN entriesOf(contextServer) ELSE << >>)
       IN  /\ contextServer' = contextServer \ processed
           /\ analyzer' = [analyzer EXCEPT
                    !.inflight = (@ \ {req}) \cup {[req EXCEPT !.reply = reply]},
                    !.event = << >>]
    /\ UNCHANGED <<enhancer, recs, nSent>>
    /\ UNCHANGED <<cacheVars, authVars, formVars, besidesPanels>>

\* The answer of a request reaches the analyzer and the handler that awaits
\* it goes on.
Analyzer_resolve(req) ==
    /\ req \in analyzer.inflight
    /\ req.reply # << >>
    /\ LET outcome == req.reply[1].outcome
           nested == IF req.call # "getUnprocessed" /\ outcome = "success"
                     THEN fetchUnprocessedEntries ELSE << >>
           a1 == IF req.call = "getUnprocessed"
                 THEN [analyzer EXCEPT
                        !.entries = setUnprocessedEntries(analyzer, req),
                        !.order = Append(@, req.n),
                        !.analyzing = IF req.by = "fetchUnprocessedEntries" THEN @ ELSE FALSE]
                 ELSE analysisSettled(analyzer, req.call, outcome)
       IN  /\ nSent' = nSent + Len(nested)
           /\ analyzer' = [a1 EXCEPT
                    !.inflight = withSent(withoutResolved(@, req), nested, req.by),
                    !.event = PanelEvent("resolved", nested, <<req>>)]
    /\ UNCHANGED <<enhancer, recs, contextServer>>
    /\ UNCHANGED <<cacheVars, authVars, formVars, besidesPanels>>

\* The buttons of AITaskEnhancer: both disabled while isEnhancing.
\* handleEnhanceTask also clears the result.
Enhancer_trigger(call) ==
    /\ ~enhancer.isEnhancing
    /\ nSent < MaxRequests
    /\ nSent' = nSent + 1
    /\ LET calls == <<PanelCall(call, <<card.task.id>>)>>
       IN  enhancer' = [enhancer EXCEPT
                !.isEnhancing = TRUE, !.error = "",
                !.result = IF call = "enhanceTask" THEN << >> ELSE @,
                !.inflight = withSent(@, calls, call),
                !.event = PanelEvent(call, calls, << >>)]
    /\ UNCHANGED <<analyzer, recs, contextServer>>
    /\ UNCHANGED <<cacheVars, authVars, formVars, besidesPanels>>

\* The call of the enhancer settles. On success the panel shows the result
\* and calls onTaskUpdated, which is the dashboard's handleTaskUpdated: a
\* refetch of the displayed list.
Enhancer_resolve(req, outcome) ==
    /\ req \in enhancer.inflight
    /\ enhancer' = [enhancer EXCEPT
            !.isEnhancing = FALSE,
            !.result = IF outcome = "success" THEN <<req.call>> ELSE @,
            !.error = CASE outcome = "success" -> @
                        [] outcome = "failure" ->
                            IF req.call = "enhanceTask" THEN "Enhancement failed"
                            ELSE "Priority recalculation failed"
                        [] outcome = "throw" ->
                            IF req.call = "enhanceTask" THEN "Failed to enhance task"
                            ELSE "Failed to recalculate priority",
            !.inflight = withoutResolved(@, req),
            !.event = PanelEvent("resolved", << >>, <<[req EXCEPT !.reply = Reply(outcome, << >>)]>>)]
    /\ IF outcome = "success"
       THEN /\ Commit(fetchKeys(Store(cache, [backend EXCEPT !.ver = @ + 1]),
                                {taskKeys_list(apiFilters(filters))}, TRUE), {}, << >>)
            /\ UNCHANGED <<mounted, filters, nEvents>>
       ELSE UNCHANGED cacheVars
    /\ UNCHANGED <<analyzer, recs, contextServer, nSent>>
    /\ UNCHANGED <<authVars, formVars, besidesPanels>>

\* fetchRecommendations, from the mount effect or the Refresh button, which
\* is not rendered while loading.
Recs_fetch(name) ==
    /\ ~recs.loading
    /\ nSent < MaxRequests
    /\ nSent' = nSent + 1
    /\ LET calls == <<PanelCall("getAIRecommendations", << >>)>>
       IN  recs' = [recs EXCEPT
                !.started = TRUE, !.loading = TRUE, !.error = "",
                !.inflight = withSent(@, calls, "fetchRecommendations"),
                !.event = PanelEvent(name, calls, << >>)]
    /\ UNCHANGED <<analyzer, enhancer, contextServer>>
    /\ UNCHANGED <<cacheVars, authVars, formVars, besidesPanels>>

AIRecommendations_useEffect == ~recs.started /\ Recs_fetch("useEffect")

Recs_refresh == recs.started /\ Recs_fetch("Refresh")

Recs_resolve(req, outcome, value) ==
    /\ req \in recs.inflight
    /\ recs' = [recs EXCEPT
            !.loading = FALSE,
            !.recommendations = IF outcome = "success" THEN value ELSE @,
            !.error = CASE outcome = "success" -> @
                        [] outcome = "failure" -> "Failed to fetch recommendations"
                        [] outcome = "throw" -> "Failed to fetch AI recommendations",
            !.inflight = withoutResolved(@, req),
            !.event = PanelEvent("resolved", << >>, <<[req EXCEPT !.reply = Reply(outcome, value)]>>)]
    /\ UNCHANGED <<analyzer, enhancer, contextServer, nSent>>
    /\ UNCHANGED <<cacheVars, authVars, formVars, besidesPanels>>

NextPanels ==
    \/ AIContextAnalyzer_useEffect
    \/ Analyzer_refresh
    \/ \E id \in ContextIds : Analyzer_analyze(id)
    \/ Analyzer_bulk
    \/ \E id \in ContextIds : ContextArrives(id)
    \/ \E req \in analyzer.inflight, outcome \in Outcomes : ContextServe(req, outcome)
    \/ \E req \in analyzer.inflight : Analyzer_resolve(req)
    \/ \E call \in {"enhanceTask", "recalculatePriority"} : Enhancer_trigger(call)
    \/ \E req \in enhancer.inflight, outcome \in Outcomes : Enhancer_resolve(req, outcome)
    \/ AIRecommendations_useEffect
    \/ Recs_refresh
    \/ \E req \in recs.inflight, outcome \in Outcomes, value \in {<< >>, <<"r1">>} :
            Recs_resolve(req, outcome, value)

\* --------------------------------------------------------------------- Next
Next ==
    \/ DashboardMount /\ UNCHANGED <<authVars, formVars, widgetVars>>
    \/ DashboardUnmount /\ UNCHANGED <<authVars, formVars, widgetVars>>
    \/ \E p \in Priorities : handleFilterChange(p) /\ UNCHANGED <<authVars, formVars, widgetVars>>
    \/ \E id \in TaskIds : useTask(id) /\ UNCHANGED <<authVars, formVars, widgetVars>>
    \/ \E k \in Keys : QuerySuccess(k) /\ UNCHANGED <<authVars, formVars, widgetVars>>
    \/ \E k \in Keys, n \in 1..MaxFailures, first \in Statuses, s \in Statuses :
            QueryError(k, n, first, s) /\ UNCHANGED <<authVars, formVars, widgetVars>>
    \/ \E k \in Keys : Expire(k) /\ UNCHANGED <<authVars, formVars, widgetVars>>
    \/ \E m \in MutationInputs, n \in 1..MaxFailures, s \in Statuses :
            MutationError(m, n, s) /\ UNCHANGED <<authVars, formVars, widgetVars>>
    \/ \E m \in MutationInputs, shape \in EnhanceShapes :
            TaskMutationSuccess(m, shape) /\ UNCHANGED <<authVars, formVars, widgetVars>>
    \/ \E m \in MutationInputs, c \in CatIds : CreateCategorySuccess(m, c) /\ UNCHANGED <<authVars, formVars, widgetVars>>
    \/ \E m \in MutationInputs : UpdateCategorySuccess(m) /\ UNCHANGED <<authVars, formVars, widgetVars>>
    \/ \E m \in MutationInputs : DeleteCategorySuccess(m) /\ UNCHANGED <<authVars, formVars, widgetVars>>

Spec == Init /\ [][Next]_vars

SpecLists == InitLists /\ [][Next]_vars

SpecCategories == InitCategories /\ [][Next]_vars

\* The pages before the dashboard: no query is followed.
InitPages == InitFollowing({{}}) /\ OneCard

\* The authentication alone.
SpecAuth == InitPages /\ [][NextAuth]_vars

\* The forms and the toast alone.
SpecForms == InitPages /\ [][NextForms]_vars

\* One card of the dashboard and one query.
InitDashboardCard == InitFollowing({{k} : k \in Keys}) /\ InitCard

SpecCard == InitDashboardCard /\ [][NextCard]_vars

\* The task form on the dashboard, and the list the dashboard shows.
InitDashboardForm == InitFollowing({{taskKeys_list(apiFilters(DefaultFilters))}}) /\ OneCard

SpecTaskForm == InitDashboardForm /\ [][NextTaskForm]_vars

\* The AI panels.
SpecPanels == InitPages /\ [][NextPanels]_vars

\* ------------------------------------------------------------------- claims
\* The mutation event e is a success of one of the operations ops.
Succeeded(e, ops) == e.done # <<>> /\ e.done[1].ok /\ e.done[1].op \in ops
Failed(e) == e.done # <<>> /\ ~e.done[1].ok

\* The query of key k is the same in the caches c and d.
sameQuery(c, d, k) ==
    /\ k \in DOMAIN c <=> k \in DOMAIN d
    /\ k \in DOMAIN c => c[k] = d[k]

SummaryKeys == {taskKeys_stats, taskKeys_today, taskKeys_overdue}

\* C1, as stated: once a task mutation has succeeded, every key of its
\* invalidation set is stale until a request is sent for it, so that no read
\* of it is served from the cache.
C1_NextReadFetches ==
    \A k \in tracked : dirty[k] # 0 => k \notin ev.hit

\* C1, amended: once a task mutation has succeeded, every key of its
\* invalidation set for which no request stayed in flight is stale until a
\* request is sent for it, and no read of it is served without a request.
C1_NextReadFetchesUnlessInFlight ==
    \A k \in tracked :
        dirty[k] = 1 =>
            /\ k \in DOMAIN cache => isStale(cache[k])
            /\ k \notin ev.hit \cup ev.join

\* A read, inside the freshness window, of a key that a mutation invalidated
\* sends a request.
C1_Witness ==
    \E k \in ev.refetched :
        /\ ev.done = <<>>
        /\ Len(cache[k].data) > 0
        /\ cache[k].isInvalidated
        /\ ~cache[k].expired

\* C2, as stated: when update, complete or enhance of task i succeeds, the
\* detail query of i holds exactly the task the service returned, and the
\* detail query of no other id is written.
C2_WriteThrough ==
    [][Succeeded(ev', {"updateTask", "completeTask", "enhanceTask"}) =>
        LET i == ev'.done[1].id
            k == taskKeys_detail(i)
        IN  /\ k \in tracked =>
                /\ k \in DOMAIN cache'
                /\ cache'[k].data = <<Task(i, backend')>>
            /\ \A j \in DetailKeys \ {k} : sameQuery(cache, cache', j)]_vars

\* C3: when delete of task i succeeds, the detail query of i is no longer in
\* the cache, and the detail query of every other id is as it was; a read of
\* a detail query that is not in the cache sends a request.
C3_DeleteRemovesDetail ==
    /\ [][Succeeded(ev', {"deleteTask"}) =>
        LET k == taskKeys_detail(ev'.done[1].id)
        IN  /\ k \notin DOMAIN cache'
            /\ \A j \in DetailKeys \ {k} : sameQuery(cache, cache', j)]_vars
    /\ [][\A k \in DetailKeys \ DOMAIN cache :
            k \in ev'.hit \cup ev'.join \cup ev'.net => k \in ev'.net]_vars

\* The detail query of the deleted task was cached and is gone.
C3_Witness ==
    /\ Succeeded(ev, {"deleteTask"})
    /\ taskKeys_detail(ev.done[1].id) \in ev.removed

\* C4: a task or category mutation that fails was sent exactly once, and its
\* failure leaves every query, data and staleness, as it was.
C4_FailureLeavesCache ==
    [][Failed(ev') => ev'.done[1].sent = 1 /\ cache' = cache]_vars

\* A mutation failed while a query held data.
C4_Witness ==
    /\ Failed(ev)
    /\ \E k \in DOMAIN cache : Len(cache[k].data) > 0

\* C5: a read whose request fails with a 4xx status is not sent again; a
\* read that fails otherwise is sent again up to 3 times, and its error is
\* surfaced after the fourth failure.
C5_RetryPolicy ==
    ev.error # <<>> =>
        LET e == ev.error[1]
            clientError(s) == s >= 400 /\ s < 500
        IN  /\ clientError(e.first) => e.sent = 1
            /\ ~clientError(e.status) => e.sent = 4
            /\ e.sent <= 4

\* A read gave up after three retries.
C5_Witness ==
    /\ ev.error # <<>>
    /\ ev.error[1].sent = 4
    /\ ev.error[1].status = 500

\* C6: a successful enhance leaves the stats, today and overdue queries as
\* they were and sends no request for them; a read of one of them sends a
\* request only when the query is stale.
C6_EnhanceKeepsSummaries ==
    [][\A k \in SummaryKeys \cap tracked :
        /\ Succeeded(ev', {"enhanceTask"}) =>
                sameQuery(cache, cache', k) /\ k \notin ev'.net /\ dirty'[k] = dirty[k]
        /\ ev'.done = <<>> /\ k \in ev'.net => isStale(build(cache, k))]_vars

\* An enhance succeeded while a summary query was fresh.
C6_Witness ==
    /\ Succeeded(ev, {"enhanceTask"})
    /\ \E k \in SummaryKeys \cap DOMAIN cache :
            ~isStale(cache[k]) /\ cache[k].fetchStatus = "idle"

\* C7: different filter objects give different list keys, and no step that
\* fetches or resolves the list of one filter object changes the query of
\* another.
C7_ListsAreSeparate ==
    [][/\ \A f, g \in FilterStates :
            f # g => taskKeys_list(apiFilters(f)) # taskKeys_list(apiFilters(g))
       /\ ev'.done = <<>> =>
            Cardinality({k \in ListKeys : ~sameQuery(cache, cache', k)}) <= 1]_vars

\* One list is fetched while the list of another filter object is fresh.
C7_Witness ==
    \E k \in ListKeys \cap ev.net :
        \E j \in (ListKeys \ {k}) \cap DOMAIN cache :
            ~isStale(cache[j]) /\ cache[j].fetchStatus = "idle"

\* C8: the response of a request that was in flight when a mutation
\* invalidated its key is stored as fresh data, and the data of a list or
\* summary query changes only when the response of a request arrives.
C8_InFlightReadWins ==
    [][\A k \in (ListKeys \cup SummaryKeys) \cap DOMAIN cache \cap DOMAIN cache' :
        /\ (cache[k].fetchStatus = "fetching" /\ cache'[k].fetchStatus = "idle"
                /\ ev'.error = <<>>) =>
              cache'[k].data = cache[k].snap /\ ~cache'[k].isInvalidated
        /\ cache'[k].data # cache[k].data =>
              cache[k].fetchStatus = "fetching" /\ cache'[k].data = cache[k].snap]_vars

\* A query holds, as fresh data, what the service held before the mutation
\* that invalidated it.
C8_Witness ==
    \E k \in (ListKeys \cup SummaryKeys) \cap DOMAIN cache :
        /\ dirty[k] = 2
        /\ cache[k].fetchStatus = "idle"
        /\ ~isStale(cache[k])
        /\ cache[k].data[1] < backend.ver

\* C9: when create category succeeds and a category list is cached, the
\* cached list becomes the previous one with the new category appended.
C9_CreateAppends ==
    [][(/\ Succeeded(ev', {"createCategory"})
        /\ Len(build(cache, categoryKeys_lists).data) > 0) =>
            /\ categoryKeys_lists \in DOMAIN cache'
            /\ cache'[categoryKeys_lists].data =
                    <<Append(cache[categoryKeys_lists].data[1], ev'.done[1].resp)>>]_vars

\* A category was created while the list of two categories was cached.
C9_Witness ==
    /\ Succeeded(ev, {"createCategory"})
    /\ categoryKeys_lists \in DOMAIN cache
    /\ LET list == cache[categoryKeys_lists].data[1]
       IN  Len(list) = 3 /\ list[3] = ev.done[1].resp

\* C10: when update category of id i succeeds, the detail query of i holds
\* the returned category, and a cached category list keeps its length and
\* order, with the entry of id i replaced and the others as they were.
C10_UpdateReplaces ==
    [][Succeeded(ev', {"updateCategory"}) =>
        LET i == ev'.done[1].id
            u == ev'.done[1].resp
            d == categoryKeys_detail(i)
            old == build(cache, categoryKeys_lists).data
        IN  /\ d \in tracked => d \in DOMAIN cache' /\ cache'[d].data = <<u>>
            /\ Len(old) > 0 =>
                /\ categoryKeys_lists \in DOMAIN cache'
                /\ LET new == cache'[categoryKeys_lists].data[1]
                   IN  /\ Len(new) = Len(old[1])
                       /\ \A j \in 1..Len(new) :
                            new[j] = IF old[1][j].id = i THEN u ELSE old[1][j]]_vars

\* The first of two cached categories was updated in place.
C10_Witness ==
    /\ Succeeded(ev, {"updateCategory"})
    /\ categoryKeys_lists \in DOMAIN cache
    /\ LET list == cache[categoryKeys_lists].data[1]
       IN  Len(list) = 2 /\ list[1] = ev.done[1].resp /\ list[2].id # ev.done[1].id

\* C11: when delete category of id i succeeds, the detail query of i is no
\* longer in the cache, and a cached category list has no entry of id i and
\* keeps its other entries in their order.
C11_DeleteCategoryEvicts ==
    [][Succeeded(ev', {"deleteCategory"}) =>
        LET i == ev'.done[1].id
            old == build(cache, categoryKeys_lists).data
            before(j) == Cardinality({n \in 1..(j - 1) : old[1][n].id = i})
        IN  /\ categoryKeys_detail(i) \notin DOMAIN cache'
            /\ Len(old) > 0 =>
                /\ categoryKeys_lists \in DOMAIN cache'
                /\ LET new == cache'[categoryKeys_lists].data[1]
                   IN  /\ ~hasCategory(new, i)
                       /\ Len(new) = Len(old[1]) - before(Len(old[1]) + 1)
                       /\ \A j \in 1..Len(old[1]) :
                            old[1][j].id # i => new[j - before(j)] = old[1][j]]_vars

\* The category that was deleted had a detail query and was the first entry
\* of the cached list of two: the query is gone and the other entry is left.
C11_Witness ==
    /\ Succeeded(ev, {"deleteCategory"})
    /\ categoryKeys_detail(ev.done[1].id) \in ev.removed
    /\ categoryKeys_lists \in DOMAIN cache
    /\ LET list == cache[categoryKeys_lists].data[1]
       IN  Len(list) = 1 /\ list[1].id = 1

\* The call that settled in the last step, of the event o.
settled(o, call, ok) == o.done # <<>> /\ o.done[1].call = call /\ o.done[1].ok = ok

\* C12: from logout until the next successful login, neither access_token
\* nor refresh_token is in local storage, and no request that is sent
\* carries an Authorization header.
C12_LoggedOutSendsNoToken ==
    loggedOut =>
        /\ DOMAIN storage \cap {"access_token", "refresh_token"} = {}
        /\ out.req # <<>> => "Authorization" \notin DOMAIN out.req[1].headers

\* A user who had logged in logged out, and a request is sent.
C12_Witness ==
    /\ loggedOut
    /\ valid # {}
    /\ out.req # <<>>
    /\ out.req[1].call = "getTasks"

\* C13: local storage changes only when a login succeeds, which leaves the
\* response's access and refresh values under access_token and
\* refresh_token, and on logout, which leaves neither item; every other
\* step, a failed login among them, leaves local storage as it was.
C13_StorageWriters ==
    [][/\ settled(out', "login", TRUE) =>
            /\ getItem(storage', "access_token") = <<out'.done[1].data.access>>
            /\ getItem(storage', "refresh_token") = <<out'.done[1].data.refresh>>
       /\ settled(out', "logout", TRUE) =>
            DOMAIN storage' \cap {"access_token", "refresh_token"} = {}
       /\ ~(settled(out', "login", TRUE) \/ settled(out', "logout", TRUE)) =>
            storage' = storage]_vars

\* A login failed while tokens were stored, and they still are.
C13_Witness ==
    /\ settled(out, "login", FALSE)
    /\ DOMAIN storage = {"access_token", "refresh_token"}

\* C14: a request that is sent carries Authorization: Bearer <token> exactly
\* when local storage holds an access_token, and the token is the stored one.
C14_HeaderFollowsStorage ==
    out.req # <<>> =>
        LET h == out.req[1].headers
        IN  /\ "Authorization" \in DOMAIN h <=> "access_token" \in DOMAIN storage
            /\ "Authorization" \in DOMAIN h =>
                    h.Authorization = <<"Bearer", storage["access_token"]>>

\* A request left with the stored token after a second login replaced the
\* first one's.
C14_Witness ==
    /\ out.req # <<>>
    /\ "Authorization" \in DOMAIN out.req[1].headers
    /\ Cardinality(valid) = 2

\* C15, as stated: when the dashboard loads and the stored access token is
\* absent or no longer accepted by the service, the browser is sent to
\* /login.
C15_AbsentOrExpiredRedirects ==
    settled(out, "loadDashboard", TRUE) =>
        LET token == getItem(storage, "access_token")
        IN  (token = <<>> \/ token[1] \notin valid) => page = "/login"

\* C16: a submit of the signup form whose password and confirmPassword
\* differ shows exactly "Passwords do not match.", sends no request and
\* leaves the form out of the loading state.
C16_MismatchIsLocal ==
    [][(/\ shown' # <<>>
        /\ shown'[1].view = "submit"
        /\ signupForm.password # signupForm.confirmPassword) =>
            /\ rendered(signupForm'.error) = <<"Passwords do not match.">>
            /\ out'.req = <<>>
            /\ ~signupForm'.loading]_vars

\* The form was submitted with two different passwords.
C16_Witness ==
    /\ shown # <<>>
    /\ shown[1].view = "submit"
    /\ signupForm.password = "p"
    /\ signupForm.confirmPassword = "q"
    /\ signupForm.error = Str("Passwords do not match.")

\* The messages of the fields before the k-th one.
RECURSIVE messagesBefore(_, _)
messagesBefore(fields, k) ==
    IF k <= 1 THEN 0
    ELSE Len(fields[k - 1].value.items) + messagesBefore(fields, k - 1)

\* C17: a failed signup whose body has a detail text shows exactly that
\* text; one whose body maps fields to arrays of messages shows every
\* message of every field as a line of its own, in the order of the body.
C17_SignupShowsServerMessages ==
    (shown # <<>> /\ shown[1].view = "signup" /\ dataOf(shown[1].err) # <<>>
        /\ ~dataOf(shown[1].err)[1].isString) =>
        LET fields == dataOf(shown[1].err)[1].fields
            lines == rendered(signupForm.error)
            detail == prop(dataOf(shown[1].err)[1], "detail")
        IN  /\ (detail # <<>> /\ ~detail[1].isArray /\ detail[1].items[1] # "") =>
                    lines = <<detail[1].items[1]>>
            /\ (detail = <<>> /\ fields # << >>
                    /\ \A k \in 1..Len(fields) : fields[k].value.isArray) =>
                    /\ Len(lines) = messagesBefore(fields, Len(fields) + 1)
                    /\ \A k \in 1..Len(fields) :
                        \A i \in 1..Len(fields[k].value.items) :
                            lines[messagesBefore(fields, k) + i] = fields[k].value.items[i]

\* A signup failed with messages for two fields, three in all, and the form
\* shows three lines.
C17_Witness ==
    /\ shown # <<>>
    /\ shown[1].view = "signup"
    /\ dataOf(shown[1].err) # <<>>
    /\ Len(dataOf(shown[1].err)[1].fields) = 2
    /\ rendered(signupForm.error) = <<"err1", "err2", "err3">>

\* C18, as stated: when a call fails with a 5xx status, or with an error
\* that has no structured body, the message the view shows is its generic
\* fallback message.
C18_GenericFallback ==
    (shown # <<>> /\ shown[1].view \in {"signup", "login", "toast"}) =>
        LET err == shown[1].err
            unstructured == dataOf(err) = <<>> \/ dataOf(err)[1].isString
            serverError == err.response # <<>> /\ err.response[1].status >= 500
        IN  (serverError \/ unstructured) => shown[1].message = Str(Fallback(shown[1].view))

\* C19: toggling the checkbox of a card whose task is completed sends one
\* update (PATCH of the task) with is_completed false and no request to the
\* complete endpoint; toggling a card whose task is incomplete sends one
\* request to the complete endpoint and no update.
C19_ToggleChoosesEndpoint ==
    (card.handler # << >> /\ card.handler[1].name = "handleToggleComplete") =>
        LET task == card.handler[1].task
        IN  IF task.is_completed
            THEN /\ card.calls = <<[method |-> "PATCH", path |-> "/tasks/{id}/", id |-> task.id,
                                    body |-> [is_completed |-> FALSE]]>>
                 /\ card.pending["updateTask"] =
                        <<[hook |-> "updateTask", id |-> task.id,
                           updates |-> [is_completed |-> FALSE]]>>
                 /\ \A j \in 1..Len(card.calls) : card.calls[j].path # "/tasks/{id}/complete/"
            ELSE /\ card.calls = <<[method |-> "POST", path |-> "/tasks/{id}/complete/",
                                    id |-> task.id, body |-> [void |-> TRUE]]>>
                 /\ card.pending["completeTask"] # << >>
                 /\ card.pending["completeTask"][1].id = task.id
                 /\ \A j \in 1..Len(card.calls) : card.calls[j].method # "PATCH"

\* The checkbox of a completed task was toggled.
C19_Witness ==
    /\ card.handler # << >>
    /\ card.handler[1].name = "handleToggleComplete"
    /\ card.handler[1].task.is_completed
    /\ Len(card.calls) = 1
    /\ card.calls[1].method = "PATCH"

\* C20: a step of the card sends a DELETE, or makes the delete hook pending,
\* only when handleDelete ran and the confirmation was accepted; when the
\* confirmation is declined no request is sent, no hook becomes pending and
\* the query cache is unchanged.
C20_DeleteNeedsConfirmation ==
    [][/\ ((\E j \in 1..Len(card'.calls) : card'.calls[j].method = "DELETE")
            \/ (card'.pending["deleteTask"] # << >>
                    /\ card'.pending["deleteTask"] # card.pending["deleteTask"])) =>
                /\ card'.handler # << >>
                /\ card'.handler[1].name = "handleDelete"
                /\ card'.handler[1].accepted
       /\ (card'.handler # << >> /\ card'.handler[1].name = "handleDelete"
                /\ ~card'.handler[1].accepted) =>
                /\ card'.calls = << >>
                /\ card'.pending = card.pending
                /\ cache' = cache
                /\ backend' = backend
                /\ ev' = ev]_vars

\* The confirmation was declined while the cache holds a query.
C20_Witness ==
    /\ card.handler # << >>
    /\ card.handler[1].name = "handleDelete"
    /\ ~card.handler[1].accepted
    /\ \E k \in DOMAIN cache : cache[k].data # << >>

\* C21: the card's enhance handler runs, an ai_enhance request leaves the
\* card and its enhance hook becomes pending only for a task the card shows
\* as incomplete and without an AI-enhanced description.
C21_EnhanceOnlyWhenOffered ==
    [][((card'.handler # << >> /\ card'.handler[1].name = "handleEnhance")
            \/ (\E j \in 1..Len(card'.calls) : card'.calls[j].path = "/tasks/{id}/ai_enhance/")
            \/ (card'.pending["enhanceTask"] # << >>
                    /\ card'.pending["enhanceTask"] # card.pending["enhanceTask"])) =>
            /\ ~card.task.is_completed
            /\ card.task.ai_enhanced_description = ""
            /\ card'.handler # << >>
            /\ card'.handler[1].task = card.task]_vars

\* The enhance button was clicked and its request is pending.
C21_Witness ==
    /\ card.handler # << >>
    /\ card.handler[1].name = "handleEnhance"
    /\ card.pending["enhanceTask"] # << >>
    /\ Len(card.calls) = 1

\* C22: the mutation the task form awaits never has a title that is empty
\* after trimming, and a submit of the form with such a title sends nothing.
C22_NoEmptyTitle ==
    /\ taskForm.pending # << >> =>
            /\ taskForm.pending[1].updates.title # ""
            /\ trim(taskForm.pending[1].updates.title) # ""
    /\ (taskForm.event # << >> /\ taskForm.event[1].name = "handleSubmit") =>
            taskForm.pending # << >>

\* The form was submitted with a title that has spaces around it, and the
\* mutation carries the trimmed title.
C22_Witness ==
    /\ taskForm.event # << >>
    /\ taskForm.event[1].name = "handleSubmit"
    /\ taskForm.formData.title = " buy milk "
    /\ taskForm.pending # << >>
    /\ taskForm.pending[1].updates.title = "buy milk"

\* C23: a submit of the form with a task issues updateTask of that task
\* without the enhance-with-AI flag, and createTask otherwise; when the
\* mutation succeeds the form calls onSuccess and then onClose and is
\* closed; when it fails the form calls neither and stays as it was.
C23_SubmitThenClose ==
    [][/\ (taskForm'.event # << >> /\ taskForm'.event[1].name = "handleSubmit") =>
            /\ taskForm'.pending # << >>
            /\ IF taskForm.task # << >>
               THEN /\ taskForm'.pending[1].hook = "updateTask"
                    /\ taskForm'.pending[1].id = taskForm.task[1].id
                    /\ "enhance_with_ai" \notin DOMAIN taskForm'.pending[1].updates
               ELSE /\ taskForm'.pending[1].hook = "createTask"
                    /\ "enhance_with_ai" \in DOMAIN taskForm'.pending[1].updates
       /\ (taskForm'.event # << >> /\ taskForm'.event[1].name = "resolved") =>
            /\ Succeeded(ev', {taskForm.pending[1].hook})
            /\ taskForm'.event[1].callbacks = <<"onSuccess", "onClose">>
            /\ ~taskForm'.open
       /\ (taskForm'.event # << >> /\ taskForm'.event[1].name = "rejected") =>
            /\ Failed(ev')
            /\ taskForm'.event[1].callbacks = << >>
            /\ taskForm'.open = taskForm.open
            /\ taskForm'.formData = taskForm.formData
            /\ taskForm'.task = taskForm.task]_vars

\* An edit of a task was submitted from the open form and failed.
C23_Witness ==
    /\ taskForm.event # << >>
    /\ taskForm.event[1].name = "rejected"
    /\ taskForm.open
    /\ taskForm.task # << >>
    /\ Failed(ev)
    /\ ev.done[1].op = "updateTask"

\* C30, as stated: when a create or update submitted through the form
\* succeeds, the onSuccess callback of the dashboard calls refetch of the
\* displayed task list.
C30_OnSuccessRefetches ==
    (taskForm.event # << >> /\ taskForm.event[1].name = "resolved") =>
        \E j \in 1..Len(taskForm.event[1].parentCalls) :
            taskForm.event[1].parentCalls[j] = "refetch"

\* The requests of the analyzer that one of its busy handlers awaits.
awaited(a) == {r \in a.inflight : r.by \in {"handleAnalyzeSingle", "handleBulkProcess"}}

\* C24, as stated: no panel guards its triggers against a request in
\* flight (the panel is never busy while it waits), and the answer that
\* resolves last is the one the panel shows.
C24_UnguardedLastWins ==
    /\ enhancer.inflight # {} => ~enhancer.isEnhancing
    /\ recs.inflight # {} => ~recs.loading
    /\ awaited(analyzer) # {} => ~analyzer.analyzing
    /\ (analyzer.event # << >> /\ analyzer.event[1].resolved # << >>
            /\ analyzer.event[1].resolved[1].call = "getUnprocessed"
            /\ analyzer.event[1].resolved[1].reply[1].outcome = "success") =>
            analyzer.entries = analyzer.event[1].resolved[1].reply[1].entries

\* C24: no panel withdraws a request it has sent. The enhancer and the
\* recommendations have at most one request in flight; the list fetches of
\* the analyzer overlap freely, and the list it holds after a fetch
\* resolves is the one of that answer, whatever the order of sending.
C24_LastResolvedWins ==
    [][/\ Cardinality(enhancer'.inflight) <= 1
       /\ Cardinality(recs'.inflight) <= 1
       /\ \A r \in analyzer.inflight :
            \/ \E q \in analyzer'.inflight : q.n = r.n /\ q.call = r.call
            \/ /\ analyzer'.event # << >>
               /\ analyzer'.event[1].resolved = <<r>>
               /\ r.reply # << >>
       /\ \A r \in enhancer.inflight :
            r \in enhancer'.inflight \/ (enhancer'.event # << >> /\ enhancer'.event[1].resolved # << >>
                                            /\ enhancer'.event[1].resolved[1].n = r.n)
       /\ \A r \in recs.inflight :
            r \in recs'.inflight \/ (recs'.event # << >> /\ recs'.event[1].resolved # << >>
                                        /\ recs'.event[1].resolved[1].n = r.n)
       /\ \A r \in analyzer.inflight :
            (r \notin analyzer'.inflight /\ r.reply # << >> /\ r.call = "getUnprocessed"
                    /\ r.reply[1].outcome = "success"
                    /\ ~\E q \in analyzer'.inflight : q.n = r.n) =>
                analyzer'.entries = r.reply[1].entries]_vars

\* Two list fetches overlapped; the one sent first resolved last, and the
\* analyzer shows its list, which is not the list of the other answer.
C24_Witness ==
    /\ Len(analyzer.order) = 2
    /\ analyzer.order[1] > analyzer.order[2]
    /\ analyzer.event # << >>
    /\ analyzer.event[1].resolved # << >>
    /\ analyzer.event[1].resolved[1].n = analyzer.order[2]
    /\ analyzer.entries = analyzer.event[1].resolved[1].reply[1].entries
    /\ analyzer.entries # entriesOf(contextServer)

\* C25: handleBulkProcess sends nothing for an empty list, and for a
\* non-empty list one POST to the bulk endpoint whose entry_ids are the ids
\* of all listed entries, in the order of the list.
C25_BulkIsOneRequest ==
    (analyzer.event # << >> /\ analyzer.event[1].name = "handleBulkProcess") =>
        LET sent == analyzer.event[1].sent
            listed == analyzer.entries
        IN  IF Len(listed) = 0
            THEN sent = << >> /\ ~analyzer.analyzing
            ELSE /\ Len(sent) = 1
                 /\ sent[1].method = "POST"
                 /\ sent[1].path = "/context/bulk_process/"
                 /\ DOMAIN sent[1].body = {"entry_ids"}
                 /\ Len(sent[1].body.entry_ids) = Len(listed)
                 /\ \A j \in 1..Len(listed) : sent[1].body.entry_ids[j] = listed[j].id
                 /\ Cardinality({r \in analyzer.inflight : r.by = "handleBulkProcess"}) = 1

\* Two entries are listed and were sent for processing.
C25_Witness ==
    /\ analyzer.event # << >>
    /\ analyzer.event[1].name = "handleBulkProcess"
    /\ Len(analyzer.entries) = 2
    /\ Len(analyzer.event[1].sent) = 1
    /\ analyzer.event[1].sent[1].body.entry_ids = <<1, 2>>

\* C29: the enhancer is busy exactly while its request is in flight, the
\* analyzer is busy exactly while a request that its analyze or bulk
\* handler awaits is in flight, and neither has two such requests at once.
C29_BusyWhileInFlight ==
    /\ enhancer.isEnhancing <=> enhancer.inflight # {}
    /\ Cardinality(enhancer.inflight) <= 1
    /\ analyzer.analyzing <=> awaited(analyzer) # {}
    /\ Cardinality(awaited(analyzer)) <= 1

\* An analysis threw and the analyzer is not busy any more, while the
\* enhancer is busy with its request.
C29_Witness ==
    /\ analyzer.event # << >>
    /\ analyzer.event[1].resolved # << >>
    /\ analyzer.event[1].resolved[1].call = "analyzeContext"
    /\ analyzer.event[1].resolved[1].reply[1].outcome = "throw"
    /\ ~analyzer.analyzing
    /\ enhancer.isEnhancing
    /\ Cardinality(enhancer.inflight) = 1

\* The elements of a sequence.
elements(seq) == {seq[j] : j \in 1..Len(seq)}

\* C26, as stated: whenever the cache has data for the category list, the
\* categories in it are exactly the categories the service holds.
C26_ListMatchesBackend ==
    (categoryKeys_lists \in DOMAIN cache /\ cache[categoryKeys_lists].data # << >>) =>
        elements(cache[categoryKeys_lists].data[1]) = elements(backend.cats)

\* C27: a successful create of a task leaves the overdue query as it was,
\* not invalidated and without a request; and a read of the overdue query
\* while it has data, is not invalidated and its window has not run out is
\* served from the cache without a request.
C27_CreateKeepsOverdue ==
    [][(taskKeys_overdue \in tracked) =>
        /\ Succeeded(ev', {"createTask"}) =>
                /\ sameQuery(cache, cache', taskKeys_overdue)
                /\ taskKeys_overdue \notin ev'.net
                /\ dirty'[taskKeys_overdue] = dirty[taskKeys_overdue]
                /\ taskKeys_overdue \in DOMAIN cache' =>
                        cache'[taskKeys_overdue].isInvalidated =
                            cache[taskKeys_overdue].isInvalidated
        /\ (ev'.done = << >> /\ taskKeys_overdue \in ev'.hit \cup ev'.net \cup ev'.join
                /\ taskKeys_overdue \in DOMAIN cache
                /\ ~isStale(cache[taskKeys_overdue])) =>
                (taskKeys_overdue \in ev'.hit /\ taskKeys_overdue \notin ev'.net)]_vars

\* A create succeeded while the overdue query held fresh data, and the
\* query is still fresh.
C27_Witness ==
    /\ Succeeded(ev, {"createTask"})
    /\ taskKeys_overdue \in DOMAIN cache
    /\ Len(cache[taskKeys_overdue].data) > 0
    /\ ~cache[taskKeys_overdue].isInvalidated
    /\ ~cache[taskKeys_overdue].expired
    /\ cache[taskKeys_overdue].fetchStatus = "idle"

\* C28: a successful category mutation leaves every task query (lists,
\* details, stats, today, overdue) as it was, with whatever task data it
\* held, not invalidated and without a request; a successful task mutation
\* does the same for every category query.
C28_TasksAndCategoriesApart ==
    [][/\ Succeeded(ev', CatOps) =>
            \A k \in TaskKeys \cap tracked :
                /\ sameQuery(cache, cache', k)
                /\ k \notin ev'.net
                /\ dirty'[k] = dirty[k]
       /\ Succeeded(ev', TaskOps) =>
            \A k \in CategoryKeys \cap tracked :
                /\ sameQuery(cache, cache', k)
                /\ k \notin ev'.net
                /\ dirty'[k] = dirty[k]]_vars

\* A category mutation succeeded while a task query held data.
C28_Witness ==
    /\ Succeeded(ev, CatOps)
    /\ \E k \in TaskKeys \cap DOMAIN cache : Len(cache[k].data) > 0

====
